---- MODULE Spec2Model ----
(***************************************************************************)
(* Incremental synchronisation of the sound-of-the-seasons warehouse:      *)
(* the time dimension, gap detection, the weather / chart / feature        *)
(* loaders and the fact linker, as implemented in scripts/incremental_etl, *)
(* scripts/populate_dim_time, services/data_loader and                     *)
(* services/fact_linker.                                                    *)
(*                                                                         *)
(* Calendar days are the integers 1..MaxDay.  A surrogate key is the       *)
(* position of the row in its table (autoincrement primary key), so the    *)
(* tables dim_time, dim_weather and fact_track_chart are sequences; 0 is   *)
(* the NULL key.  dim_track has the natural key track_id; its rows are     *)
(* kept in insertion order.                                                *)
(*                                                                         *)
(* The store is SQLite without PRAGMA foreign_keys: a foreign key is not   *)
(* checked on insert.  The dim_weather table takes the row that            *)
(* DataLoader.load_weather builds (date_id and the four averages, no       *)
(* region); on a table whose region column is NOT NULL that insert raises, *)
(* which is the behaviour AbortRun describes at the weather load.          *)
(***************************************************************************)
EXTENDS Integers, Sequences, FiniteSets, TLC

VARIABLES
    today,          \* date.today()
    dimTime,        \* dim_time: sequence of dates, date_id = index
    dimWeather,     \* dim_weather: sequence of [date_id], weather_id = index
    dimTrack,       \* dim_track: sequence of rows in insertion order
    facts,          \* fact_track_chart: sequence of rows, fact_id = index
    wxDown,         \* weather archive: every location request fails
    chartUp,        \* chart API: the dates it currently answers with items
    pc,             \* position of the incremental run (main)
    missing_weather,        \* main: result of get_missing_weather_dates
    missing_charts,         \* main: result of get_missing_chart_dates
    missing_features_old,   \* main: result of get_missing_features
    ranges,         \* fetch_and_load_weather: ranges still to fetch
    wxRecords,      \* load_weather: records of fetch_all not yet consumed
    chartQueue,     \* fetch_and_load_charts: dates still to fetch
    items,          \* fetch_and_load_charts: items of the date being loaded
    new_ids,        \* load_charts: new_track_ids of the date being loaded
    updated,        \* link_weather_to_facts: number of facts it linked
    new_track_ids,  \* fetch_and_load_charts: all_new_track_ids
    featQueue,      \* fetch_audio_features: uuids still to request
    features,       \* fetch_audio_features: rows collected so far
    prevCounts,     \* row counts at the end of the previous completed run,
                    \* while nothing outside the run has changed since
    populated,      \* days for which populate_dim_time has run
    bulkQueue,      \* load_facts_bulk: fact_records not yet saved
    flushed,        \* load_facts_bulk: rows saved and flushed, not committed
    fetcher,        \* weather fetch: "service" (WeatherService) or "legacy"
    location,       \* weather fetch: index of the location requested last
    attempts,       \* weather fetch: outcomes of the requests for it
    sleeps,         \* weather fetch: seconds slept after each of them
    all_location_data,  \* fetch_all: the series returned per location
    daily_averages, \* fetch_all: the records it yields
    wsStatus,       \* fetch_all: "idle", "fetching", "done" or the exception
    top_n,          \* fetch_chart_for_date: its argument, 0 before the call
    published,      \* chart API: length of the ranking of the date
    pagesOpen,      \* fetch_chart_for_date: pages whose request is in flight
    results,        \* fetch_chart_for_date: items returned per page
    completed,      \* pages in the order their responses arrived
    all_items,      \* fetch_chart_for_date: the list it returns
    chartPc,        \* fetch_chart_for_date: "idle", "gathering", "returned"
    request_count,  \* SoundchartsService.request_count
    progress_file,  \* FEATURES_CSV: the rows of the file, as written
    charts_file,    \* CHARTS_CSV: the chart dates of its rows
    max_requests,   \* main_fetch: its argument
    to_fetch,       \* fetch_batch: uuids of the batches still to come
    batch,          \* fetch_audio_features: uuids still to request
    df_batch,       \* fetch_audio_features: rows collected for the batch
    requested,      \* the song requests sent in this run of main_fetch
    fetchPc,        \* main_fetch: "idle", "fetching" or "requesting"
    inFlight        \* requests sent whose response has not arrived:
                    \* <<"weather", location>>, <<"chart", date, page>>,
                    \* <<"song", uuid>>

vars == <<today, dimTime, dimWeather, dimTrack, facts, wxDown,
          chartUp, pc, missing_weather, missing_charts, missing_features_old,
          ranges, wxRecords, chartQueue, items, new_ids, new_track_ids,
          featQueue, features, updated, prevCounts, populated, bulkQueue,
          flushed, fetcher, location, attempts, sleeps, all_location_data,
          daily_averages, wsStatus, top_n, published, pagesOpen, results,
          completed, all_items, chartPc, request_count, progress_file,
          charts_file, max_requests, to_fetch, batch, df_batch, requested,
          fetchPc, inFlight>>

warehouse == <<dimTime, dimWeather, dimTrack, facts>>
upstream == <<wxDown, chartUp>>
runLocals == <<missing_weather, missing_charts, missing_features_old, ranges,
               wxRecords, chartQueue, items, new_ids, new_track_ids, featQueue,
               features, updated>>
bulkVars == <<bulkQueue, flushed>>
weatherCall == <<fetcher, location, attempts, sleeps, all_location_data,
                 daily_averages, wsStatus>>
chartCall == <<top_n, published, pagesOpen, results, completed, all_items,
               chartPc>>
resumable == <<progress_file, charts_file, max_requests, to_fetch, batch,
               df_batch, requested, fetchPc>>
callVars == <<bulkVars, weatherCall, chartCall, request_count, resumable,
              inFlight>>

----------------------------------------------------------------------------
(* Bounds of the model *)

MaxDay == 16            \* calendar days 1..MaxDay
BatchSizeWeather == 2   \* DataLoader(batch_size=BATCH_SIZE_WEATHER), scaled
FeatureCap == 1         \* get_missing_features: missing[:200], scaled
MaxPopulateDay == 7     \* populate_dim_time is run by hand up to this day

Days == 1..MaxDay
NULL == 0
TrackIds == {"a", "b", "c"}
NoUuid == "none"        \* a chart item without song.uuid

----------------------------------------------------------------------------
(* Sequence helpers *)

Range(s) == {s[i] : i \in DOMAIN s}

RECURSIVE SortedSeq(_)
\* sorted(...) of a set of integers
SortedSeq(S) ==
    IF S = {} THEN <<>>
    ELSE LET m == CHOOSE x \in S : \A y \in S : x <= y
         IN <<m>> \o SortedSeq(S \ {m})

Take(s, n) == SubSeq(s, 1, IF n < Len(s) THEN n ELSE Len(s))
Drop(s, n) == SubSeq(s, (IF n < Len(s) THEN n ELSE Len(s)) + 1, Len(s))

Max(S) == CHOOSE x \in S : \A y \in S : y <= x

----------------------------------------------------------------------------
(* Calendar *)

\* date.weekday(): Monday = 0 .. Sunday = 6; day 2 of the model is a Sunday
weekday(d) == (d + 4) % 7

\* config.START_DATE / END_DATE, the defaults of populate_dim_time()
START_DATE == 1
END_DATE == 4

----------------------------------------------------------------------------
(* Queries on the warehouse *)

TimeDates == Range(dimTime)

\* {d.date: d.date_id for d in db.query(DimTime.date_id, DimTime.date)}.get(d)
date_lookup(d) ==
    IF d \in TimeDates THEN CHOOSE i \in DOMAIN dimTime : dimTime[i] = d
    ELSE NULL

\* {w.date_id: w.weather_id for w in db.query(DimWeather...)}.get(date_id):
\* a later row of the same date_id overwrites an earlier one in the dict
weather_lookup(date_id) ==
    LET ws == {i \in DOMAIN dimWeather : dimWeather[i].date_id = date_id}
    IN IF ws = {} THEN NULL ELSE Max(ws)

\* db.query(DimWeather).filter(DimWeather.date_id == date_id).first()
first_weather(date_id) ==
    LET ws == {i \in DOMAIN dimWeather : dimWeather[i].date_id = date_id}
    IN IF ws = {} THEN NULL ELSE CHOOSE i \in ws : \A j \in ws : i <= j

\* dates joined to a dim_weather row / to a fact row
TrackKeys == {t.track_id : t \in Range(dimTrack)}
WeatherDates == {dimTime[w.date_id] : w \in Range(dimWeather)}
FactDates == {dimTime[f.date_id] : f \in Range(facts)}

----------------------------------------------------------------------------
(* Time dimension *)

\* an extension that starts two days after the latest stored date
extend_rows_skip_next ==
    IF dimTime = <<>> THEN <<>>
    ELSE LET latest_date == Max(TimeDates)
         IN IF latest_date >= today THEN <<>>
            ELSE SortedSeq({d \in latest_date + 2..today : d \notin TimeDates})

\* populate_dim_time: the dates of start..end not yet stored, ascending,
\* appended with fresh date_ids
populate_rows(start, end) ==
    SortedSeq({d \in start..end : d \notin TimeDates})

\* extend_dim_time_to_today: the rows it appends
extend_rows ==
    IF dimTime = <<>> THEN <<>>
    ELSE LET latest_date == Max(TimeDates)
         IN IF latest_date >= today THEN <<>>
            ELSE populate_rows(latest_date + 1, today)

----------------------------------------------------------------------------
(* Gap detection *)

\* variants of the gap detection: a filter date >= latest_date, a filter
\* date > latest_date + 1, and a chart filter without the weekday test
get_missing_weather_dates_inclusive ==
    IF WeatherDates = {} THEN <<>>
    ELSE LET latest_date == Max(WeatherDates)
         IN SortedSeq({d \in TimeDates : d >= latest_date})

get_missing_weather_dates_skip_next ==
    IF WeatherDates = {} THEN <<>>
    ELSE LET latest_date == Max(WeatherDates)
         IN SortedSeq({d \in TimeDates : d > latest_date + 1})

get_missing_chart_dates_inclusive ==
    IF FactDates = {} THEN <<>>
    ELSE LET latest_date == Max(FactDates)
         IN SortedSeq({d \in TimeDates : d >= latest_date /\ weekday(d) = 6})

get_missing_chart_dates_any_weekday ==
    IF FactDates = {} THEN <<>>
    ELSE LET latest_date == Max(FactDates)
         IN SortedSeq({d \in TimeDates : d > latest_date})

\* a detection that lists every date of dim_time when no weather is stored
get_missing_weather_dates_all_when_empty ==
    IF WeatherDates = {} THEN SortedSeq(TimeDates)
    ELSE LET latest_date == Max(WeatherDates)
         IN SortedSeq({d \in TimeDates : d > latest_date})

get_missing_weather_dates ==
    IF WeatherDates = {} THEN <<>>
    ELSE LET latest_date == Max(WeatherDates)
         IN SortedSeq({d \in TimeDates : d > latest_date})

get_missing_chart_dates ==
    IF FactDates = {} THEN <<>>
    ELSE LET latest_date == Max(FactDates)
         IN SortedSeq({d \in TimeDates : d > latest_date /\ weekday(d) = 6})

\* a selection of the tracks without danceability that is not cut
get_missing_features_uncapped ==
    LET missing == SelectSeq(dimTrack, LAMBDA t : t.danceability = NULL)
    IN [i \in DOMAIN missing |-> missing[i].track_id]

\* a selection of the first tracks of the table, with features or without
get_missing_features_no_filter ==
    Take([i \in DOMAIN dimTrack |-> dimTrack[i].track_id], FeatureCap)

\* tracks whose danceability IS NULL, in table order, cut to the cap
get_missing_features ==
    LET missing == SelectSeq(dimTrack, LAMBDA t : t.danceability = NULL)
    IN Take([i \in DOMAIN missing |-> missing[i].track_id], FeatureCap)

----------------------------------------------------------------------------
(* Upstream sources *)

\* chart API: the ranking published for a chart date (a song holds one
\* position of a ranking; an item may lack song.uuid)
ChartOf(d) ==
    IF (d \div 7) % 2 = 1 THEN <<"a", "b">> ELSE <<"b", NoUuid, "c">>

\* SoundchartsService.fetch_chart_for_date: the items, or [] when the page
\* requests return no items (non-200, exception, nothing published)
fetch_chart_for_date(d) == IF d \in chartUp THEN ChartOf(d) ELSE <<>>

\* feature API, per uuid: "full" = 200 with every audio field set,
\* "nodance" = 200 with danceability null and another field set,
\* "none" = 404, an all-null audio object or a failed request
AudioOf(uuid) ==
    IF uuid = "a" THEN "full" ELSE IF uuid = "b" THEN "nodance" ELSE "none"

\* weather archive: the averaged temperature of a day
TemperatureOf(d) == d % 3

\* a fetch_all that ignores start_date and reads the archive from day 1
fetch_all_from_first_day(start, end) ==
    IF wxDown THEN <<>>
    ELSE SortedSeq({d \in 1..end : d <= today})

\* WeatherService.fetch_all for start..end: one averaged record per day that
\* at least one location reported, ascending by date; the archive has the
\* days up to today, and nothing while every location request fails
fetch_all(start, end) ==
    IF wxDown THEN <<>>
    ELSE SortedSeq({d \in start..end : d <= today})

----------------------------------------------------------------------------
(* fetch_and_load_weather: grouping of the missing dates into ranges *)

RECURSIVE group_loop(_, _, _, _)
group_loop(rest, start, end, acc) ==
    IF rest = <<>> THEN Append(acc, <<start, end>>)
    ELSE LET d == Head(rest)
         IN IF d - end = 1
            THEN group_loop(Tail(rest), start, d, acc)
            ELSE group_loop(Tail(rest), d, d, Append(acc, <<start, end>>))

\* variant: one range from the first missing date to the last
group_ranges_first_to_last(missing_dates) ==
    IF missing_dates = <<>> THEN <<>>
    ELSE <<<<missing_dates[1], missing_dates[Len(missing_dates)]>>>>

group_ranges(missing_dates) ==
    IF missing_dates = <<>> THEN <<>>
    ELSE group_loop(Tail(missing_dates), missing_dates[1], missing_dates[1], <<>>)

----------------------------------------------------------------------------
(* DataLoader *)

\* load_weather: the length of the prefix of the record stream consumed up
\* to and including the n-th record whose date is in the date lookup
RECURSIVE prefix_with(_, _)
prefix_with(recs, n) ==
    IF recs = <<>> \/ n = 0 THEN 0
    ELSE 1 + prefix_with(Tail(recs),
                         IF date_lookup(Head(recs)) # NULL THEN n - 1 ELSE n)

\* a loader that gives up the rest of the stretch at the first record whose
\* date is not in dim_time
RECURSIVE weather_rows_stop_at_unknown(_)
weather_rows_stop_at_unknown(recs) ==
    IF recs = <<>> THEN <<>>
    ELSE LET date_id == date_lookup(Head(recs))
         IN IF date_id = NULL THEN <<>>
            ELSE <<[date_id |-> date_id,
                    temperature_avg |-> TemperatureOf(Head(recs))]>>
                 \o weather_rows_stop_at_unknown(Tail(recs))

\* load_weather: DimWeather rows of a stretch of the stream; records whose
\* date is not in dim_time are skipped
RECURSIVE weather_rows(_)
weather_rows(recs) ==
    IF recs = <<>> THEN <<>>
    ELSE LET date_id == date_lookup(Head(recs))
         IN IF date_id = NULL THEN weather_rows(Tail(recs))
            ELSE <<[date_id |-> date_id,
                    temperature_avg |-> TemperatureOf(Head(recs))]>>
                 \o weather_rows(Tail(recs))

\* load_charts: {item.song.uuid for item in chart_items if uuid}
item_track_ids(chart_items) == Range(chart_items) \ {NoUuid}

\* a loader that builds a placeholder for every item that has a uuid
RECURSIVE track_records_every_item(_, _)
track_records_every_item(chart_items, new_tracks) ==
    IF chart_items = <<>> THEN <<>>
    ELSE LET song_uuid == Head(chart_items)
             rest == track_records_every_item(Tail(chart_items), new_tracks)
         IN IF song_uuid # NoUuid
            THEN <<[track_id |-> song_uuid, danceability |-> NULL,
                    energy |-> NULL]>> \o rest
            ELSE rest

\* load_charts: placeholder DimTrack rows, one per item whose uuid is new
RECURSIVE track_records(_, _)
track_records(chart_items, new_tracks) ==
    IF chart_items = <<>> THEN <<>>
    ELSE LET song_uuid == Head(chart_items)
             rest == track_records(Tail(chart_items), new_tracks)
         IN IF song_uuid \in new_tracks
            THEN <<[track_id |-> song_uuid, danceability |-> NULL,
                    energy |-> NULL]>> \o rest
            ELSE rest

\* a lookup keyed by the date where the weather lookup is keyed by date_id
fact_weather_id_by_date(date_id) == weather_lookup(dimTime[date_id])

\* load_charts / load_facts_bulk: weather_id given to a new fact
fact_weather_id(date_id) == weather_lookup(date_id)

\* load_charts: FactTrackChart rows, one per item that has a uuid
RECURSIVE fact_records(_, _)
fact_records(chart_items, date_id) ==
    IF chart_items = <<>> THEN <<>>
    ELSE LET song_uuid == Head(chart_items)
             rest == fact_records(Tail(chart_items), date_id)
         IN IF song_uuid = NoUuid THEN rest
            ELSE <<[track_id |-> song_uuid, date_id |-> date_id,
                    weather_id |-> fact_weather_id(date_id),
                    country |-> "de"]>> \o rest

\* an update that writes the two feature columns crosswise
updated_track_crosswise(t, feats) ==
    IF \E r \in Range(feats) : r.song_uuid = t.track_id
    THEN LET r == CHOOSE r \in Range(feats) : r.song_uuid = t.track_id
         IN [t EXCEPT !.danceability = r.energy, !.energy = r.danceability]
    ELSE t

\* update_track_features: the row of one track after the update
updated_track(t, feats) ==
    IF \E r \in Range(feats) : r.song_uuid = t.track_id
    THEN LET r == CHOOSE r \in Range(feats) : r.song_uuid = t.track_id
         IN [t EXCEPT !.danceability = r.danceability, !.energy = r.energy]
    ELSE t

\* an update that inserts a row for an input row without a Track row
update_track_features_upsert(tracks, feats) ==
    [i \in DOMAIN tracks |-> updated_track(tracks[i], feats)]
    \o SelectSeq([i \in DOMAIN feats |->
                     [track_id |-> feats[i].song_uuid,
                      danceability |-> feats[i].danceability,
                      energy |-> feats[i].energy]],
                 LAMBDA t : \A u \in Range(tracks) : u.track_id # t.track_id)

\* update_track_features: the track table after the commit; an input row
\* whose song_uuid has no Track row is passed over
update_track_features(tracks, feats) ==
    [i \in DOMAIN tracks |-> updated_track(tracks[i], feats)]

----------------------------------------------------------------------------
(* FactLinker *)

\* a linker that sets the first weather row on every unlinked fact
linked_facts_any_weather ==
    [i \in DOMAIN facts |->
        IF facts[i].weather_id = NULL /\ dimWeather # <<>>
        THEN [facts[i] EXCEPT !.weather_id = 1]
        ELSE facts[i]]

\* link_weather_to_facts: the fact table after the commit
linked_facts ==
    [i \in DOMAIN facts |->
        IF facts[i].weather_id = NULL
        THEN LET weather == first_weather(facts[i].date_id)
             IN IF weather # NULL THEN [facts[i] EXCEPT !.weather_id = weather]
                ELSE facts[i]
        ELSE facts[i]]

----------------------------------------------------------------------------
(* Initial state: the warehouse after the initial full load of days 2..4:  *)
(* the time dimension, weather for a prefix of it, one known track with    *)
(* features and its chart fact on the Sunday, linked to its weather or not *)
(* yet.                                                                    *)

Counts == <<Len(dimWeather), Len(dimTrack), Len(facts)>>
NoCounts == <<>>

IdleLocals ==
    /\ missing_weather = <<>> /\ missing_charts = <<>>
    /\ missing_features_old = <<>> /\ ranges = <<>> /\ wxRecords = <<>>
    /\ chartQueue = <<>> /\ items = <<>> /\ new_ids = <<>>
    /\ new_track_ids = <<>> /\ featQueue = <<>> /\ features = <<>>
    /\ updated = 0

\* no bulk load and no fetch is under way
IdleBulk == bulkQueue = <<>> /\ flushed = <<>>

IdleWeatherCall ==
    /\ fetcher = "service" /\ location = 0 /\ attempts = <<>>
    /\ sleeps = <<>>
    /\ all_location_data = <<>> /\ daily_averages = <<>> /\ wsStatus = "idle"

IdleChartCall ==
    /\ top_n = 0 /\ published = 0 /\ pagesOpen = {} /\ results = <<>>
    /\ completed = <<>> /\ all_items = <<>> /\ chartPc = "idle"

\* no SoundchartsService has counted a request, no progress file exists and
\* main_fetch is not running
IdleResumable ==
    /\ progress_file = <<>> /\ max_requests = 0 /\ to_fetch = <<>>
    /\ charts_file = <<>>
    /\ batch = <<>> /\ df_batch = <<>> /\ requested = <<>>
    /\ fetchPc = "idle"

IdleCalls ==
    /\ IdleBulk /\ IdleWeatherCall /\ IdleChartCall
    /\ request_count = 0 /\ IdleResumable /\ inFlight = {}

InitialLoad ==
    /\ today = END_DATE
    /\ dimTime = <<2, 3, 4>>
    /\ dimWeather = [i \in 1..3 |->
                        [date_id |-> i, temperature_avg |-> TemperatureOf(i + 1)]]
    /\ dimTrack = <<[track_id |-> "a", danceability |-> 1, energy |-> 1]>>
    /\ \E w \in {NULL, 1} :
          facts = <<[track_id |-> "a", date_id |-> 1, weather_id |-> w,
                     country |-> "de"]>>
    /\ wxDown = FALSE
    /\ chartUp = {}
    /\ pc = "idle"
    /\ IdleLocals
    /\ prevCounts = NoCounts
    /\ populated = 2..4

Init == InitialLoad /\ IdleCalls

ResetLocals ==
    /\ missing_weather' = <<>> /\ missing_charts' = <<>>
    /\ missing_features_old' = <<>> /\ ranges' = <<>> /\ wxRecords' = <<>>
    /\ chartQueue' = <<>> /\ items' = <<>> /\ new_ids' = <<>>
    /\ new_track_ids' = <<>> /\ featQueue' = <<>> /\ features' = <<>>
    /\ updated' = 0

----------------------------------------------------------------------------
(* The environment, between two runs *)

AdvanceDay ==
    /\ pc = "idle" /\ today < MaxDay
    /\ today' = today + 1
    /\ prevCounts' = NoCounts
    /\ UNCHANGED callVars
    /\ UNCHANGED <<warehouse, upstream, pc, runLocals, populated>>

\* the weather archive starts or stops failing every request
WeatherOutage ==
    /\ pc = "idle"
    /\ wxDown' = ~wxDown
    /\ prevCounts' = NoCounts
    /\ UNCHANGED callVars
    /\ UNCHANGED <<today, warehouse, chartUp, pc, runLocals, populated>>

\* the chart API starts or stops answering for a chart date
ChartAvailability ==
    /\ pc = "idle"
    /\ \E d \in {x \in 1..today : weekday(x) = 6 /\ x \notin FactDates} :
          chartUp' = IF d \in chartUp THEN chartUp \ {d} ELSE chartUp \cup {d}
    /\ prevCounts' = NoCounts
    /\ UNCHANGED callVars
    /\ UNCHANGED <<today, warehouse, wxDown, pc, runLocals, populated>>

----------------------------------------------------------------------------
(* scripts/populate_dim_time.py and scripts/link_facts.py, run by hand *)

\* the arguments it is run with: the defaults, and a later range that is
\* not adjacent to the days stored so far
PopulateArgs == {<<START_DATE, END_DATE>>, <<END_DATE + 3, END_DATE + 4>>}

PopulateDimTime ==
    /\ pc = "idle"
    /\ today <= MaxPopulateDay
    /\ \E a \in PopulateArgs :
          /\ dimTime' = dimTime \o populate_rows(a[1], a[2])
          /\ populated' = populated \cup (a[1]..a[2])
    /\ pc' = "populated"
    /\ prevCounts' = NoCounts
    /\ UNCHANGED callVars
    /\ UNCHANGED <<today, dimWeather, dimTrack, facts, upstream, runLocals>>

\* the facts the linker's query returns: those with a null weather_id
unlinked_facts == {i \in DOMAIN facts : facts[i].weather_id = NULL}

\* the closing log line computes updated/len(facts)*100: with no fact
\* returned by the query the division raises ZeroDivisionError
link_log_raises == Cardinality(unlinked_facts) = 0

\* FactLinker().link_weather_to_facts(): the loop and the final commit,
\* then the log line and self.db.close(); the log line raises before the
\* close when it divides by zero
LinkWeatherToFacts ==
    /\ pc = "idle"
    /\ facts' = linked_facts
    /\ updated' = Cardinality({i \in DOMAIN facts : linked_facts[i] # facts[i]})
    /\ pc' = IF link_log_raises THEN "link_raised" ELSE "linked"
    /\ prevCounts' = NoCounts
    /\ UNCHANGED callVars
    /\ UNCHANGED <<today, dimTime, dimWeather, dimTrack, upstream,
                   missing_weather, missing_charts, missing_features_old,
                   ranges, wxRecords, chartQueue, items, new_ids,
                   new_track_ids, featQueue, features, populated>>

\* the script ends
ScriptExit ==
    /\ pc \in {"populated", "linked", "link_raised"}
    /\ pc' = "idle"
    /\ ResetLocals
    /\ UNCHANGED callVars
    /\ UNCHANGED <<today, warehouse, upstream, updated, prevCounts, populated>>

----------------------------------------------------------------------------
(* scripts/incremental_etl.py: main *)

\* extend_dim_time_to_today()
ExtendDimTime ==
    /\ pc = "idle"
    /\ dimTime' = dimTime \o extend_rows
    /\ populated' = populated \cup Range(extend_rows)
    /\ pc' = "detect"
    /\ UNCHANGED callVars
    /\ UNCHANGED <<today, dimWeather, dimTrack, facts, upstream, runLocals,
                   prevCounts>>

\* the three get_missing_* calls and the early return
\* stages taken in an order that requests the charts before the weather
after_stage_charts_first(stage) ==
    IF stage = "detect" THEN "charts"
    ELSE IF stage = "charts" THEN "weather"
    ELSE IF stage = "weather" THEN "features_new"
    ELSE IF stage = "features_new" THEN "features_old"
    ELSE "done"

\* main: the awaited calls follow each other; fetch_and_load_weather, then
\* fetch_and_load_charts, then fetch_and_load_features for the new and for
\* the old tracks
after_stage(stage) ==
    IF stage = "detect" THEN "weather"
    ELSE IF stage = "weather" THEN "charts"
    ELSE IF stage = "charts" THEN "features_new"
    ELSE IF stage = "features_new" THEN "features_old"
    ELSE "done"

DetectGaps ==
    /\ pc = "detect"
    /\ missing_weather' = get_missing_weather_dates
    /\ missing_charts' = get_missing_chart_dates
    /\ missing_features_old' = get_missing_features
    /\ IF /\ get_missing_weather_dates = <<>>
          /\ get_missing_chart_dates = <<>>
          /\ get_missing_features = <<>>
       THEN pc' = "done" /\ ranges' = <<>>
       ELSE /\ pc' = after_stage("detect")
            /\ ranges' = group_ranges(get_missing_weather_dates)
    /\ UNCHANGED callVars
    /\ UNCHANGED <<today, warehouse, upstream, wxRecords, chartQueue, items,
                   new_ids, new_track_ids, featQueue, features, updated, prevCounts,
                   populated>>

\* fetch_and_load_weather: WeatherService(start, end).fetch_all() of the next
\* range; with no range left, on to fetch_and_load_charts
FetchWeather ==
    /\ pc = "weather"
    /\ IF ranges = <<>>
       THEN /\ pc' = after_stage("weather")
            /\ chartQueue' = missing_charts
            /\ UNCHANGED wxRecords
       ELSE /\ pc' = "wload"
            /\ wxRecords' = fetch_all(Head(ranges)[1], Head(ranges)[2])
            /\ UNCHANGED chartQueue
    /\ UNCHANGED callVars
    /\ UNCHANGED <<today, warehouse, upstream, missing_weather, missing_charts,
                   missing_features_old, ranges, items, new_ids, new_track_ids,
                   featQueue, features, updated, prevCounts, populated>>

\* load_weather: bulk_save_objects + commit of the next batch; once the
\* stream is consumed, the next range
LoadWeatherBatch ==
    /\ pc = "wload"
    /\ IF wxRecords = <<>>
       THEN /\ pc' = "weather"
            /\ ranges' = Tail(ranges)
            /\ UNCHANGED <<dimWeather, wxRecords>>
       ELSE LET n == prefix_with(wxRecords, BatchSizeWeather)
            IN /\ dimWeather' = dimWeather \o weather_rows(Take(wxRecords, n))
               /\ wxRecords' = Drop(wxRecords, n)
               /\ UNCHANGED <<pc, ranges>>
    /\ UNCHANGED callVars
    /\ UNCHANGED <<today, dimTime, dimTrack, facts, upstream, missing_weather,
                   missing_charts, missing_features_old, chartQueue, items,
                   new_ids, new_track_ids, featQueue, features, updated, prevCounts,
                   populated>>

\* fetch_and_load_charts: fetch_chart_for_date of the next missing date;
\* "No data" skips the date; with no date left, on to the features
FetchChart ==
    /\ pc = "charts"
    /\ IF chartQueue = <<>>
       THEN /\ pc' = after_stage("charts")
            /\ UNCHANGED <<chartQueue, items>>
       ELSE LET got == fetch_chart_for_date(Head(chartQueue))
            IN IF got = <<>>
               THEN /\ chartQueue' = Tail(chartQueue)
                    /\ UNCHANGED <<pc, items>>
               ELSE /\ items' = got
                    /\ pc' = "ctracks"
                    /\ UNCHANGED chartQueue
    /\ UNCHANGED callVars
    /\ UNCHANGED <<today, warehouse, upstream, missing_weather, missing_charts,
                   missing_features_old, ranges, wxRecords, new_ids,
                   new_track_ids, featQueue, features, updated, prevCounts, populated>>

\* load_charts, first commit: the placeholder tracks of the date.  A date
\* without date_id returns (0, []) at once.
LoadChartsTracks ==
    /\ pc = "ctracks"
    /\ LET date_id == date_lookup(Head(chartQueue))
           track_ids == item_track_ids(items)
           new_tracks == track_ids \ TrackKeys
           recs == track_records(items, new_tracks)
       IN IF date_id = NULL
          THEN /\ pc' = "charts"
               /\ chartQueue' = Tail(chartQueue)
               /\ items' = <<>>
               /\ UNCHANGED <<dimTrack, new_ids>>
          ELSE /\ dimTrack' = dimTrack \o recs
               /\ new_ids' = [i \in DOMAIN recs |-> recs[i].track_id]
               /\ pc' = "cfacts"
               /\ UNCHANGED <<chartQueue, items>>
    /\ UNCHANGED callVars
    /\ UNCHANGED <<today, dimTime, dimWeather, facts, upstream, missing_weather,
                   missing_charts, missing_features_old, ranges, wxRecords,
                   new_track_ids, featQueue, features, updated, prevCounts, populated>>

\* load_charts, second commit: the facts of the date; the caller extends
\* all_new_track_ids by the returned ids
LoadChartsFacts ==
    /\ pc = "cfacts"
    /\ LET recs == fact_records(items, date_lookup(Head(chartQueue)))
       IN /\ facts' = facts \o recs
          /\ new_track_ids' =
                IF recs # <<>> THEN new_track_ids \o new_ids ELSE new_track_ids
    /\ chartQueue' = Tail(chartQueue)
    /\ items' = <<>>
    /\ new_ids' = <<>>
    /\ pc' = "charts"
    /\ UNCHANGED callVars
    /\ UNCHANGED <<today, dimTime, dimWeather, dimTrack, upstream,
                   missing_weather, missing_charts, missing_features_old,
                   ranges, wxRecords, featQueue, features, updated, prevCounts,
                   populated>>

\* fetch_and_load_features(new_track_ids), then (missing_features_old):
\* the uuids to request, or the next stage when the list is empty
StartFeatures ==
    /\ pc \in {"features_new", "features_old"}
    /\ LET track_ids == IF pc = "features_new" THEN new_track_ids
                        ELSE missing_features_old
       IN IF track_ids = <<>>
          THEN /\ pc' = after_stage(pc)
               /\ UNCHANGED featQueue
          ELSE /\ pc' = IF pc = "features_new" THEN "fetch_new" ELSE "fetch_old"
               /\ featQueue' = track_ids
    /\ features' = <<>>
    /\ UNCHANGED callVars
    /\ UNCHANGED <<today, warehouse, upstream, missing_weather, missing_charts,
                   missing_features_old, ranges, wxRecords, chartQueue, items,
                   new_ids, new_track_ids, updated, prevCounts, populated>>

\* fetch_audio_features: the request for the next uuid
FetchAudio ==
    /\ pc \in {"fetch_new", "fetch_old"}
    /\ featQueue # <<>>
    /\ LET uuid == Head(featQueue)
       IN features' =
             IF AudioOf(uuid) = "full"
             THEN Append(features, [song_uuid |-> uuid, danceability |-> 1,
                                    energy |-> 1])
             ELSE IF AudioOf(uuid) = "nodance"
             THEN Append(features, [song_uuid |-> uuid, danceability |-> NULL,
                                    energy |-> 1])
             ELSE features
    /\ featQueue' = Tail(featQueue)
    /\ UNCHANGED callVars
    /\ UNCHANGED <<today, warehouse, upstream, pc, missing_weather,
                   missing_charts, missing_features_old, ranges, wxRecords,
                   chartQueue, items, new_ids, new_track_ids, updated, prevCounts,
                   populated>>

\* update_track_features(df) when len(df) > 0, and the end of the stage
UpdateTrackFeatures ==
    /\ pc \in {"fetch_new", "fetch_old"}
    /\ featQueue = <<>>
    /\ dimTrack' = IF features # <<>>
                   THEN update_track_features(dimTrack, features)
                   ELSE dimTrack
    /\ features' = <<>>
    /\ pc' = IF pc = "fetch_new" THEN after_stage("features_new")
             ELSE after_stage("features_old")
    /\ UNCHANGED callVars
    /\ UNCHANGED <<today, dimTime, dimWeather, facts, upstream, missing_weather,
                   missing_charts, missing_features_old, ranges, wxRecords,
                   chartQueue, items, new_ids, new_track_ids, featQueue,
                   updated, prevCounts, populated>>

\* main returns
FinishRun ==
    /\ pc = "done"
    /\ pc' = "idle"
    /\ prevCounts' = Counts
    /\ ResetLocals
    /\ UNCHANGED callVars
    /\ UNCHANGED <<today, warehouse, upstream, populated>>

\* an exception leaves main (a request, an insert the store rejects), or
\* the process is killed: what is committed stays, the open transaction is
\* lost
AbortRun ==
    /\ pc \notin {"idle", "done", "populated", "linked", "link_raised"}
    /\ pc' = "idle"
    /\ prevCounts' = NoCounts
    /\ ResetLocals
    /\ bulkQueue' = <<>> /\ flushed' = <<>>
    /\ UNCHANGED <<weatherCall, chartCall, request_count, resumable,
                   inFlight>>
    /\ UNCHANGED <<today, warehouse, upstream, populated>>

Next ==
    \/ AdvanceDay
    \/ WeatherOutage
    \/ ChartAvailability
    \/ PopulateDimTime
    \/ LinkWeatherToFacts
    \/ ScriptExit
    \/ ExtendDimTime
    \/ DetectGaps
    \/ FetchWeather
    \/ LoadWeatherBatch
    \/ FetchChart
    \/ LoadChartsTracks
    \/ LoadChartsFacts
    \/ StartFeatures
    \/ FetchAudio
    \/ UpdateTrackFeatures
    \/ FinishRun
    \/ AbortRun

Spec == Init /\ [][Next]_vars

----------------------------------------------------------------------------
(* The loader and the linker called one by one, on the initial calendar *)

MaxFacts == 3           \* the loader calls stop at this many fact rows
MaxWeatherRows == 6     \* and at this many weather rows
BatchSizeFacts == 1     \* DataLoader(batch_size) of load_facts_bulk, scaled

\* load_facts_bulk: FactTrackChart rows of the charts frame; rows whose
\* chart_date is not in dim_time are dropped, the track is not looked up
RECURSIVE bulk_fact_records(_)
bulk_fact_records(charts_df) ==
    IF charts_df = <<>> THEN <<>>
    ELSE LET row == Head(charts_df)
             date_id == date_lookup(row.chart_date)
             rest == bulk_fact_records(Tail(charts_df))
         IN IF date_id = NULL THEN rest
            ELSE <<[track_id |-> row.song_uuid, date_id |-> date_id,
                    weather_id |-> fact_weather_id(date_id),
                    country |-> "de"]>> \o rest

\* load_tracks_bulk: the track table after the call; a track_id that is
\* stored already, or twice in the frame, violates the primary key and the
\* transaction is rolled back
bulk_tracks(features_df) ==
    IF \/ \E i \in DOMAIN features_df : features_df[i] \in TrackKeys
       \/ \E i, j \in DOMAIN features_df :
             i # j /\ features_df[i] = features_df[j]
    THEN dimTrack
    ELSE dimTrack \o [i \in DOMAIN features_df |->
                         [track_id |-> features_df[i], danceability |-> 1,
                          energy |-> 1]]

LoaderRanges == {<<2, 4>>, <<4, 5>>, <<1, 3>>}
LoaderItems == {<<"a", "b">>, <<"b", NoUuid, "c">>, <<NoUuid>>}
LoaderDates == {2, 4, 5}
ChartFrames ==
    {<<[song_uuid |-> "b", chart_date |-> 3]>>,
     <<[song_uuid |-> "a", chart_date |-> 4],
       [song_uuid |-> "c", chart_date |-> 5]>>,
     <<[song_uuid |-> "b", chart_date |-> 2],
       [song_uuid |-> "c", chart_date |-> 3]>>}
FeatureFrames == {<<"b">>, <<"a", "c">>}
UpdateFrames ==
    {<<[song_uuid |-> "b", danceability |-> 1, energy |-> 2]>>,
     <<[song_uuid |-> "c", danceability |-> NULL, energy |-> 1],
       [song_uuid |-> "a", danceability |-> 2, energy |-> 2]>>,
     <<[song_uuid |-> "a", danceability |-> 2, energy |-> 1]>>}

\* loader.load_weather(WeatherService(start, end)) is called: the stream of
\* fetch_all, loaded by LoadWeatherBatch
LoaderLoadWeather ==
    /\ pc = "idle"
    /\ \E r \in LoaderRanges :
          /\ Len(dimWeather) + Len(fetch_all(r[1], r[2])) <= MaxWeatherRows
          /\ ranges' = <<r>>
          /\ wxRecords' = fetch_all(r[1], r[2])
    /\ pc' = "wload"
    /\ UNCHANGED callVars
    /\ UNCHANGED <<today, warehouse, upstream, missing_weather, missing_charts,
                   missing_features_old, chartQueue, items, new_ids,
                   new_track_ids, featQueue, features, updated, prevCounts,
                   populated>>

\* loader.load_charts(chart_items, date_obj, create_tracks=True) is called
LoaderLoadCharts ==
    /\ pc = "idle"
    /\ \E its \in LoaderItems, d \in LoaderDates :
          /\ Len(facts) + Len(its) <= MaxFacts
          /\ items' = its
          /\ chartQueue' = <<d>>
    /\ pc' = "ctracks"
    /\ UNCHANGED callVars
    /\ UNCHANGED <<today, warehouse, upstream, missing_weather, missing_charts,
                   missing_features_old, ranges, wxRecords, new_ids,
                   new_track_ids, featQueue, features, updated, prevCounts,
                   populated>>

\* load_charts, load_weather or update_track_features has returned
LoaderReturn ==
    /\ pc \in {"charts", "weather", "done"}
    /\ pc' = "idle"
    /\ ResetLocals
    /\ UNCHANGED callVars
    /\ UNCHANGED <<today, warehouse, upstream, prevCounts, populated>>

\* loader.load_facts_bulk(charts_df) is called: the fact records are built
LoaderLoadFactsBulk ==
    /\ pc = "idle"
    /\ \E df \in ChartFrames :
          /\ Len(facts) + Len(df) <= MaxFacts
          /\ bulkQueue' = bulk_fact_records(df)
    /\ flushed' = <<>>
    /\ pc' = "bulk"
    /\ UNCHANGED <<weatherCall, chartCall, request_count, resumable,
                   inFlight>>
    /\ UNCHANGED <<today, warehouse, upstream, runLocals, prevCounts,
                   populated>>

\* load_facts_bulk: bulk_save_objects(batch) and flush() of the next batch,
\* inside the transaction
LoaderBulkFlush ==
    /\ pc = "bulk" /\ bulkQueue # <<>>
    /\ flushed' = flushed \o Take(bulkQueue, BatchSizeFacts)
    /\ bulkQueue' = Drop(bulkQueue, BatchSizeFacts)
    /\ UNCHANGED <<weatherCall, chartCall, request_count, resumable,
                   inFlight>>
    /\ UNCHANGED <<today, warehouse, upstream, pc, runLocals, prevCounts,
                   populated>>

\* load_facts_bulk: the commit after the last batch, and the return
LoaderBulkCommit ==
    /\ pc = "bulk" /\ bulkQueue = <<>>
    /\ facts' = facts \o flushed
    /\ flushed' = <<>>
    /\ pc' = "idle"
    /\ UNCHANGED <<bulkQueue, weatherCall, chartCall, request_count,
                   resumable, inFlight>>
    /\ UNCHANGED <<today, dimTime, dimWeather, dimTrack, upstream, runLocals,
                   prevCounts, populated>>

\* loader.load_tracks_bulk(features_df)
LoaderLoadTracksBulk ==
    /\ pc = "idle"
    /\ \E df \in FeatureFrames : dimTrack' = bulk_tracks(df)
    /\ UNCHANGED callVars
    /\ UNCHANGED <<today, dimTime, dimWeather, facts, upstream, pc, runLocals,
                   prevCounts, populated>>

\* loader.update_track_features(features_df) is called; the update is
\* UpdateTrackFeatures
LoaderUpdateTrackFeatures ==
    /\ pc = "idle"
    /\ \E df \in UpdateFrames : features' = df
    /\ pc' = "fetch_old"
    /\ UNCHANGED callVars
    /\ UNCHANGED <<today, warehouse, upstream, missing_weather, missing_charts,
                   missing_features_old, ranges, wxRecords, chartQueue, items,
                   new_ids, new_track_ids, featQueue, updated, prevCounts,
                   populated>>

NextLoader ==
    \/ LoaderLoadWeather
    \/ LoaderLoadCharts
    \/ LoadChartsTracks
    \/ LoadChartsFacts
    \/ LoaderReturn
    \/ LoaderLoadFactsBulk
    \/ LoaderBulkFlush
    \/ LoaderBulkCommit
    \/ LoaderLoadTracksBulk
    \/ LoaderUpdateTrackFeatures
    \/ UpdateTrackFeatures
    \/ LoadWeatherBatch
    \/ AbortRun
    \/ LinkWeatherToFacts
    \/ ScriptExit

SpecLoader == Init /\ [][NextLoader]_vars

----------------------------------------------------------------------------
(* The weather fetchers: the requests per location and the aggregation *)

NumLocations == 3       \* len(WEATHER_LOCATIONS), scaled
max_retries == 3
NoValue == -1           \* None in place of a metric

\* what the archive can answer for one location: a series of days, a day
\* with a sunshine duration of 0 seconds, a last day that is all null, and
\* a series that ends a day early
Daily(t, temp, precip, wind, sun) ==
    [time |-> t, temperature_2m_mean |-> temp, precipitation_sum |-> precip,
     windspeed_10m_max |-> wind, sunshine_duration |-> sun]

Payloads ==
    {<<Daily(1, 2, 1, 3, 7200), Daily(2, 4, 0, 5, 3600)>>,
     <<Daily(1, 6, 2, 1, 0), Daily(2, 2, 2, 3, 10800)>>,
     <<Daily(1, 4, 1, 1, 3600),
       Daily(2, NoValue, NoValue, NoValue, NoValue)>>,
     <<Daily(1, 0, 3, 7, 14400)>>}

\* outcome of one request: 200 with a body, 429, a timeout, a transport
\* error or another status (raise_for_status), a body that cannot be read
Outcomes == {"ok", "r429", "timeout", "transport", "malformed"}

\* fetch_location_weather / fetch_weather_data: the records of a body
location_records(daily) ==
    [i \in DOMAIN daily |->
        [date |-> daily[i].time,
         temperature_avg |-> daily[i].temperature_2m_mean,
         precipitation_mm |-> daily[i].precipitation_sum,
         wind_speed_kmh |-> daily[i].windspeed_10m_max,
         sunshine_hours |->
            IF daily[i].sunshine_duration = NoValue
               \/ daily[i].sunshine_duration = 0
            THEN NoValue
            ELSE daily[i].sunshine_duration \div 3600]]

\* a handling of the request outcomes that lets the error of an unreadable
\* body leave the function
attempt_effect_unreadable_raises(kind, outcome) ==
    IF outcome = "ok" THEN "return"
    ELSE IF outcome = "malformed" THEN "raise"
    ELSE "retry"

\* what one pass of the retry loop does with the outcome of its request:
\* WeatherService catches every Exception and goes on; WeatherFetcher goes
\* on after a timeout and a ClientError and breaks on any other Exception
attempt_effect(kind, outcome) ==
    IF outcome = "ok" THEN "return"
    ELSE IF kind = "legacy" /\ outcome = "malformed" THEN "break"
    ELSE "retry"

\* a back-off that grows by 2 seconds per attempt
wait_time_linear(attempt, outcome, effect) ==
    IF outcome = "r429" THEN (attempt + 1) * 2
    ELSE IF effect = "retry" /\ attempt < max_retries - 1 THEN 2
    ELSE 0

\* the seconds the pass of the loop for the zero-based attempt sleeps:
\* (2 ** attempt) * 2 on a 429, 2 after a caught exception when
\* attempt < max_retries - 1, nothing otherwise
wait_time(attempt, outcome, effect) ==
    IF outcome = "r429" THEN (2 ^ attempt) * 2
    ELSE IF effect = "retry" /\ attempt < max_retries - 1 THEN 2
    ELSE 0

RECURSIVE SeqSum(_)
SeqSum(vs) == IF vs = <<>> THEN 0 ELSE Head(vs) + SeqSum(Tail(vs))

RECURSIVE Flatten(_)
Flatten(ss) == IF ss = <<>> THEN <<>> ELSE Head(ss) \o Flatten(Tail(ss))

\* a collection of the day's values that counts a missing sunshine value as
\* zero hours
day_values_none_as_zero(data, d, metric) ==
    LET recs == SelectSeq(Flatten(data), LAMBDA r : r.date = d)
        all == [i \in DOMAIN recs |-> recs[i][metric]]
    IN IF metric = "sunshine_hours"
       THEN [i \in DOMAIN all |-> IF all[i] = NoValue THEN 0 ELSE all[i]]
       ELSE all

\* _compute_daily_averages: daily_values[date], per metric, in the order of
\* the locations; sunshine_hours is appended only when it is not None
day_values(data, d, metric) ==
    LET recs == SelectSeq(Flatten(data), LAMBDA r : r.date = d)
        all == [i \in DOMAIN recs |-> recs[i][metric]]
    IN IF metric = "sunshine_hours"
       THEN SelectSeq(all, LAMBDA v : v # NoValue)
       ELSE all

\* sum(values) / len(values) if values else None, as the exact fraction
\* <<sum, len>>; <<0, 0>> is None
NoMean == <<0, 0>>
mean(values) ==
    IF values = <<>> THEN NoMean ELSE <<SeqSum(values), Len(values)>>

Metrics ==
    {"temperature_avg", "precipitation_mm", "wind_speed_kmh", "sunshine_hours"}

\* the dates of the first location's series only
averaged_dates_first_series(data) ==
    SortedSeq({r.date : r \in Range(Head(data))})

\* sorted(daily_values.keys())
averaged_dates(data) == SortedSeq({r.date : r \in Range(Flatten(data))})

\* sum() over a list that holds None raises TypeError
sum_raises(data) ==
    \E d \in Range(averaged_dates(data)), m \in Metrics :
        NoValue \in Range(day_values(data, d, m))

compute_daily_averages(data) ==
    LET dates == averaged_dates(data)
    IN [i \in DOMAIN dates |->
          [date |-> dates[i],
           temperature_avg |-> mean(day_values(data, dates[i], "temperature_avg")),
           precipitation_mm |-> mean(day_values(data, dates[i], "precipitation_mm")),
           wind_speed_kmh |-> mean(day_values(data, dates[i], "wind_speed_kmh")),
           sunshine_hours |-> mean(day_values(data, dates[i], "sunshine_hours"))]]

\* a fetch_all over the locations starts, with either fetcher
InitWeather ==
    /\ InitialLoad
    /\ IdleBulk /\ IdleChartCall /\ request_count = 0 /\ IdleResumable /\ inFlight = {}
    /\ fetcher \in {"service", "legacy"}
    /\ location = 0 /\ attempts = <<>> /\ sleeps = <<>>
    /\ all_location_data = <<>> /\ daily_averages = <<>>
    /\ wsStatus = "fetching"

\* one pass of the retry loop of fetch_location_weather (fetch_weather_data)
\* for the location under way, or the first pass for the next location
RequestLocation ==
    /\ wsStatus = "fetching"
    /\ LET under_way == Len(all_location_data) < location
           loc == IF under_way THEN location ELSE location + 1
           before == IF under_way THEN attempts ELSE <<>>
       IN /\ loc <= NumLocations
          /\ location' = loc
          /\ \E outcome \in Outcomes, daily \in Payloads :
                LET effect == attempt_effect(fetcher, outcome)
                IN /\ attempts' = Append(before, outcome)
                   /\ sleeps' =
                         Append(IF under_way THEN sleeps ELSE <<>>,
                                wait_time(Len(before), outcome, effect))
                   /\ all_location_data' =
                         IF effect = "return"
                         THEN Append(all_location_data, location_records(daily))
                         ELSE IF \/ effect = "break"
                                 \/ effect = "retry"
                                    /\ Len(before) + 1 = max_retries
                         THEN Append(all_location_data, <<>>)
                         ELSE all_location_data
                   /\ wsStatus' = IF effect = "raise" THEN "raised"
                                  ELSE wsStatus
    /\ UNCHANGED <<fetcher, daily_averages, bulkVars, chartCall,
                   request_count, resumable,
                   inFlight>>
    /\ UNCHANGED <<today, warehouse, upstream, pc, runLocals, prevCounts,
                   populated>>

\* fetch_all after the last location: WeatherService yields the daily
\* averages, WeatherFetcher has yielded the records of every location
FetchAllYield ==
    /\ wsStatus = "fetching"
    /\ Len(all_location_data) = NumLocations
    /\ IF fetcher = "legacy"
       THEN /\ daily_averages' = Flatten(all_location_data)
            /\ wsStatus' = "done"
       ELSE IF sum_raises(all_location_data)
       THEN /\ wsStatus' = "TypeError"
            /\ UNCHANGED daily_averages
       ELSE /\ daily_averages' = compute_daily_averages(all_location_data)
            /\ wsStatus' = "done"
    /\ UNCHANGED <<fetcher, location, attempts, sleeps, all_location_data,
                   bulkVars, chartCall, request_count, resumable,
                   inFlight>>
    /\ UNCHANGED <<today, warehouse, upstream, pc, runLocals, prevCounts,
                   populated>>

NextWeather == RequestLocation \/ FetchAllYield

SpecWeather == InitWeather /\ [][NextWeather]_vars

----------------------------------------------------------------------------
(* SoundchartsService.fetch_chart_for_date: the pages of one chart date *)

PageLimit == 2          \* 'limit': 100 and the offsets page * 100, scaled
MaxTopN == 5
MaxRanking == 6
MaxRequests == 6        \* calls start while the counter leaves room for them

\* how a page request ends: 200 with items, another status, or an
\* exception raised by session.get before a response is there
PageOutcomes == {"items", "status", "transport"}

\* pages_needed = (top_n + 99) // 100
pages_needed(n) == (n + (PageLimit - 1)) \div PageLimit

\* the items of a 200 response for an offset: the positions after the
\* offset, at most limit of them, as far as the ranking goes
page_items(offset, ranking) ==
    LET last == IF offset + PageLimit < ranking THEN offset + PageLimit
                ELSE ranking
    IN [i \in 1..(IF last > offset THEN last - offset ELSE 0) |-> offset + i]

\* the results of the page tasks in the order in which they finished
gather_as_completed(page_results, order) ==
    [i \in DOMAIN order |-> page_results[order[i] + 1]]

\* asyncio.gather(*tasks): the results in the order of the tasks
gather(page_results, order) == page_results

InitCharts ==
    /\ InitialLoad
    /\ IdleBulk /\ IdleWeatherCall /\ IdleChartCall
    /\ request_count = 0 /\ IdleResumable /\ inFlight = {}

\* the song of a position of the ranking; some items have no song.uuid
SongAt(position) ==
    IF position = 1 THEN "b" ELSE IF position = 3 THEN "c"
    ELSE IF position = 4 THEN "a" ELSE NoUuid

\* the missing dates fetch_and_load_charts is called with
StageDates == {<<3, 4>>, <<4>>}

\* a caller that hands every result to load_charts
caller_loads_always(chart_items) == TRUE

\* fetch_and_load_charts: `if items:`
caller_loads(chart_items) == chart_items # <<>>

\* fetch_and_load_charts(app_id, api_key, missing_dates) is called: a
\* DataLoader, a fresh SoundchartsService and the loop over the dates
StartChartStage ==
    /\ pc = "idle" /\ chartPc = "idle"
    /\ Len(facts) < MaxFacts
    /\ \E dates \in StageDates : chartQueue' = dates
    /\ pc' = "charts"
    /\ request_count' = 0
    /\ UNCHANGED <<bulkVars, weatherCall, resumable, inFlight>>
    /\ UNCHANGED <<top_n, published, pagesOpen, results, completed, all_items,
                   chartPc>>
    /\ UNCHANGED <<today, warehouse, upstream, missing_weather, missing_charts,
                   missing_features_old, ranges, wxRecords, items, new_ids,
                   new_track_ids, featQueue, features, updated, prevCounts,
                   populated>>

\* the call for the next date: one fetch_chart_page task per page, all
\* started by gather
FetchChartForDate ==
    /\ pc = "charts" /\ chartQueue # <<>>
    /\ chartPc = "idle"
    /\ \E n \in 1..MaxTopN, ranking \in 0..MaxRanking :
          /\ request_count + pages_needed(n) <= MaxRequests
          /\ top_n' = n
          /\ published' = ranking
          /\ pagesOpen' = 0..(pages_needed(n) - 1)
          /\ results' = [i \in 1..pages_needed(n) |-> <<>>]
    /\ completed' = <<>>
    /\ all_items' = <<>>
    /\ chartPc' = "gathering"
    /\ UNCHANGED request_count
    /\ UNCHANGED <<bulkVars, weatherCall, resumable, inFlight>>
    /\ UNCHANGED <<today, warehouse, upstream, pc, runLocals, prevCounts,
                   populated>>

\* fetch_chart_page of one page finishes: the items of a 200 response, the
\* empty list after another status or an exception; request_count is
\* raised inside the async with block, once the response is there
FetchChartPage ==
    /\ chartPc = "gathering"
    /\ \E page \in pagesOpen, outcome \in PageOutcomes :
          /\ results' = [results EXCEPT ![page + 1] =
                            IF outcome = "items"
                            THEN page_items(page * PageLimit, published)
                            ELSE <<>>]
          /\ request_count' = IF outcome = "transport" THEN request_count
                               ELSE request_count + 1
          /\ completed' = Append(completed, page)
          /\ pagesOpen' = pagesOpen \ {page}
    /\ UNCHANGED <<top_n, published, all_items, chartPc>>
    /\ UNCHANGED <<bulkVars, weatherCall, resumable, inFlight>>
    /\ UNCHANGED <<today, warehouse, upstream, pc, runLocals, prevCounts,
                   populated>>

\* every task has finished: flatten the gathered results, cut to top_n
FetchChartReturn ==
    /\ chartPc = "gathering"
    /\ pagesOpen = {}
    /\ all_items' = Take(Flatten(gather(results, completed)), top_n)
    /\ chartPc' = "returned"
    /\ UNCHANGED <<top_n, published, pagesOpen, results, completed,
                   request_count>>
    /\ UNCHANGED <<bulkVars, weatherCall, resumable, inFlight>>
    /\ UNCHANGED <<today, warehouse, upstream, pc, runLocals, prevCounts,
                   populated>>

\* fetch_and_load_charts with the returned list: load_charts when it has
\* items, "No data" and the next date when it is empty
ChartItemsToCaller ==
    /\ chartPc = "returned"
    /\ chartPc' = "idle"
    /\ IF caller_loads(all_items)
       THEN /\ items' = [i \in DOMAIN all_items |-> SongAt(all_items[i])]
            /\ pc' = "ctracks"
            /\ UNCHANGED chartQueue
       ELSE /\ chartQueue' = Tail(chartQueue)
            /\ UNCHANGED <<pc, items>>
    /\ UNCHANGED <<top_n, published, pagesOpen, results, completed, all_items,
                   request_count>>
    /\ UNCHANGED <<bulkVars, weatherCall, resumable, inFlight>>
    /\ UNCHANGED <<today, warehouse, upstream, missing_weather, missing_charts,
                   missing_features_old, ranges, wxRecords, new_ids,
                   new_track_ids, featQueue, features, updated, prevCounts,
                   populated>>

\* after the last date fetch_and_load_charts returns
ChartStageReturn ==
    /\ pc = "charts" /\ chartQueue = <<>> /\ chartPc = "idle"
    /\ pc' = "idle"
    /\ ResetLocals
    /\ UNCHANGED callVars
    /\ UNCHANGED <<today, warehouse, upstream, prevCounts, populated>>

NextCharts ==
    \/ StartChartStage
    \/ FetchChartForDate
    \/ FetchChartPage
    \/ FetchChartReturn
    \/ ChartItemsToCaller
    \/ LoadChartsTracks
    \/ LoadChartsFacts
    \/ ChartStageReturn

SpecCharts == InitCharts /\ [][NextCharts]_vars

----------------------------------------------------------------------------
(* scripts/soundcharts/fetch_track_features.py: the resumable fetcher *)

MaxBudget == 2          \* --max takes the values 0..MaxBudget, or is absent
FeaturesBatchSize == 2  \* FEATURES_BATCH_SIZE, scaled
RequestLimit == 3       \* request_count >= 950, scaled
NoBudget == -1          \* max_requests = None

\* get_prioritized_uuids(): the songs of the charts file, newest first
ChartUuids == <<"u1", "u2", "u3">>

\* the name of a song in a response: an ordinary name, a name that read_csv
\* takes for a missing value ("NA", "N/A", "null", "None", ...), or no name
NoName == "(none)"
SongNames == {"Song", "NA", NoName}

\* how a song request ends: 200 with audio values, 404 or 200 without
\* audio values, another status, an exception raised by session.get
SongOutcomes == {"found", "notfound", "status", "transport"}

\* DataFrame.to_csv: a missing value is written as the empty field
to_csv(df) ==
    [i \in DOMAIN df |->
        [song_uuid |-> df[i].song_uuid,
         song_name |-> IF df[i].song_name = NoName THEN ""
                       ELSE df[i].song_name]]

\* pd.read_csv with its default na_values: the empty field and the fields
\* that spell a missing value are read as NaN
read_csv(file) ==
    [i \in DOMAIN file |->
        [song_uuid |-> file[i].song_uuid,
         song_name |-> IF file[i].song_name \in {"", "NA"} THEN NoName
                       ELSE file[i].song_name]]

\* drop_duplicates(subset=['song_uuid'], keep='first')
RECURSIVE drop_duplicates(_, _)
drop_duplicates(df, seen) ==
    IF df = <<>> THEN <<>>
    ELSE IF Head(df).song_uuid \in seen
    THEN drop_duplicates(Tail(df), seen)
    ELSE <<Head(df)>>
         \o drop_duplicates(Tail(df), seen \cup {Head(df).song_uuid})

\* save_batch: the file after the call
save_batch(file, df_new) ==
    IF df_new = <<>> THEN file
    ELSE IF file # <<>>
    THEN to_csv(drop_duplicates(read_csv(file) \o df_new, {}))
    ELSE to_csv(df_new)

\* load_progress(): the uuids of the progress file
load_progress == {r.song_uuid : r \in Range(read_csv(progress_file))}

\* get_remaining_uuids
get_remaining_uuids(all_uuids, fetched_uuids) ==
    SelectSeq(all_uuids, LAMBDA u : u \notin fetched_uuids)

\* a loop over the batches that does not look at the request counter
at_request_limit_never(count) == FALSE

\* fetch_batch, after a batch: `if service.request_count >= 950: break`
at_request_limit(count) == count >= RequestLimit

\* main_fetch up to the call of fetch_batch: a fresh service, to_fetch cut
\* to max_requests `if max_requests`; with nothing remaining it returns
MainFetch ==
    /\ fetchPc = "idle"
    /\ LET remaining_uuids == get_remaining_uuids(ChartUuids, load_progress)
       IN /\ remaining_uuids # <<>>
          /\ \E m \in {NoBudget} \cup 0..MaxBudget :
                /\ max_requests' = m
                /\ to_fetch' = IF m # NoBudget /\ m # 0
                               THEN Take(remaining_uuids, m)
                               ELSE remaining_uuids
    /\ request_count' = 0
    /\ requested' = <<>>
    /\ fetchPc' = "fetching"
    /\ UNCHANGED <<charts_file, progress_file, batch, df_batch>>
    /\ UNCHANGED <<bulkVars, weatherCall, chartCall, inFlight>>
    /\ UNCHANGED <<today, warehouse, upstream, pc, runLocals, prevCounts,
                   populated>>

\* fetch_batch: the next batch goes to fetch_audio_features, or the loop
\* and main_fetch end
NextFeatureBatch ==
    /\ fetchPc = "fetching"
    /\ IF to_fetch = <<>>
       THEN /\ fetchPc' = "idle"
            /\ UNCHANGED <<to_fetch, batch>>
       ELSE /\ batch' = Take(to_fetch, FeaturesBatchSize)
            /\ to_fetch' = Drop(to_fetch, FeaturesBatchSize)
            /\ fetchPc' = "requesting"
    /\ UNCHANGED <<charts_file, progress_file, max_requests, df_batch, requested,
                   request_count>>
    /\ UNCHANGED <<bulkVars, weatherCall, chartCall, inFlight>>
    /\ UNCHANGED <<today, warehouse, upstream, pc, runLocals, prevCounts,
                   populated>>

\* fetch_audio_features: the request for the next uuid of the batch
RequestSong ==
    /\ fetchPc = "requesting"
    /\ batch # <<>>
    /\ \E outcome \in SongOutcomes, name \in SongNames :
          /\ df_batch' = IF outcome = "found"
                         THEN Append(df_batch, [song_uuid |-> Head(batch),
                                                song_name |-> name])
                         ELSE df_batch
          /\ request_count' = IF outcome = "transport" THEN request_count
                               ELSE request_count + 1
    /\ requested' = Append(requested, Head(batch))
    /\ batch' = Tail(batch)
    /\ UNCHANGED <<charts_file, progress_file, max_requests, to_fetch, fetchPc>>
    /\ UNCHANGED <<bulkVars, weatherCall, chartCall, inFlight>>
    /\ UNCHANGED <<today, warehouse, upstream, pc, runLocals, prevCounts,
                   populated>>

\* fetch_batch after fetch_audio_features has returned: save_batch when
\* the frame has rows, and the break at the request limit
SaveBatch ==
    /\ fetchPc = "requesting"
    /\ batch = <<>>
    /\ progress_file' = save_batch(progress_file, df_batch)
    /\ df_batch' = <<>>
    /\ IF at_request_limit(request_count)
       THEN fetchPc' = "idle" /\ to_fetch' = <<>>
       ELSE fetchPc' = "fetching" /\ UNCHANGED to_fetch
    /\ UNCHANGED <<charts_file, max_requests, batch, requested,
                   request_count>>
    /\ UNCHANGED <<bulkVars, weatherCall, chartCall, inFlight>>
    /\ UNCHANGED <<today, warehouse, upstream, pc, runLocals, prevCounts,
                   populated>>

\* the script is interrupted: the rows of the batch under way are lost, the
\* progress file stays
InterruptFetch ==
    /\ fetchPc # "idle"
    /\ fetchPc' = "idle"
    /\ to_fetch' = <<>> /\ batch' = <<>> /\ df_batch' = <<>>
    /\ UNCHANGED <<charts_file, progress_file, max_requests, requested, request_count>>
    /\ UNCHANGED <<bulkVars, weatherCall, chartCall, inFlight>>
    /\ UNCHANGED <<today, warehouse, upstream, pc, runLocals, prevCounts,
                   populated>>

NextFeatures ==
    \/ MainFetch
    \/ NextFeatureBatch
    \/ RequestSong
    \/ SaveBatch
    \/ InterruptFetch

SpecFeatures == Init /\ [][NextFeatures]_vars

----------------------------------------------------------------------------
(* Gap detection on any warehouse: the time dimension as populated, with   *)
(* weather rows for any of its days, none included                         *)

DetectCalendars == {<<2, 3, 4>>, <<2, 3, 4, 5, 6>>, <<2, 3, 4, 7, 8>>}

\* the weather rows of the covered date_ids, in the order of the date_ids
covered_rows(time, covered) ==
    LET ids == SortedSeq(covered)
    IN [i \in DOMAIN ids |->
          [date_id |-> ids[i], temperature_avg |-> TemperatureOf(time[ids[i]])]]

InitDetect ==
    /\ today = END_DATE
    /\ dimTime \in DetectCalendars
    /\ \E covered \in SUBSET (1..5) :
          /\ covered \subseteq DOMAIN dimTime
          /\ dimWeather = covered_rows(dimTime, covered)
    /\ dimTrack = <<[track_id |-> "a", danceability |-> 1, energy |-> 1]>>
    /\ facts = <<[track_id |-> "a", date_id |-> 1, weather_id |-> NULL,
                  country |-> "de"]>>
    /\ wxDown = FALSE
    /\ chartUp = {}
    /\ pc = "idle"
    /\ IdleLocals
    /\ prevCounts = NoCounts
    /\ populated = Range(dimTime)
    /\ IdleCalls

NextDetect ==
    \/ AdvanceDay
    \/ ExtendDimTime
    \/ DetectGaps
    \/ FinishRun
    \/ AbortRun

SpecDetect == InitDetect /\ [][NextDetect]_vars

----------------------------------------------------------------------------
(* The requests of one run on the wire: what is sent before the response   *)
(* to an earlier request is there                                          *)

RequestOutcomes == {"ok", "r429"}

StageUuids == {<<"b">>, <<"b", "c">>}

\* a loop that starts the next call as a task, without waiting for the
\* earlier one
awaited_never(in_flight) == TRUE

\* `await` of the call in the loop body (fetch_location_weather in
\* fetch_all, fetch_chart_for_date in fetch_and_load_charts, the session.get
\* block in fetch_audio_features): the loop goes on when the call has
\* returned, that is when none of its requests is open
awaited(in_flight) == in_flight = {}

\* the tasks fetch_chart_for_date hands to gather: one request per page
page_requests(d, n) == {<<"chart", d, page>> : page \in 0..(pages_needed(n) - 1)}

\* the location under way is requested again: its last request was not
\* answered with data and an attempt is left
retrying == /\ attempts # <<>>
            /\ attempts[Len(attempts)] # "ok"
            /\ Len(attempts) < max_retries

\* main, after gap detection: the missing chart dates and the tracks whose
\* features are requested
StartRequests ==
    /\ pc = "idle"
    /\ \E dates \in StageDates : missing_charts' = dates
    /\ \E uuids \in StageUuids : missing_features_old' = uuids
    /\ pc' = "weather"
    /\ location' = 0 /\ attempts' = <<>>
    /\ UNCHANGED <<fetcher, sleeps, all_location_data, daily_averages, wsStatus,
                   bulkVars, chartCall, request_count, resumable, inFlight>>
    /\ UNCHANGED <<today, warehouse, upstream, missing_weather, ranges,
                   wxRecords, chartQueue, items, new_ids, new_track_ids,
                   featQueue, features, updated, prevCounts, populated>>

\* fetch_all: the next pass of the retry loop, or the first request of the
\* next location
SendLocation ==
    /\ pc = "weather"
    /\ awaited(inFlight)
    /\ IF retrying
       THEN UNCHANGED <<location, attempts>>
       ELSE /\ location < NumLocations
            /\ location' = location + 1
            /\ attempts' = <<>>
    /\ inFlight' = inFlight \cup {<<"weather", location', 0>>}
    /\ UNCHANGED <<fetcher, sleeps, all_location_data, daily_averages, wsStatus,
                   bulkVars, chartCall, request_count, resumable>>
    /\ UNCHANGED <<today, warehouse, upstream, pc, runLocals, prevCounts,
                   populated>>

\* the response to a location request
ReceiveLocation ==
    /\ \E r \in inFlight :
          /\ r[1] = "weather"
          /\ inFlight' = inFlight \ {r}
    /\ \E outcome \in RequestOutcomes : attempts' = Append(attempts, outcome)
    /\ UNCHANGED <<fetcher, location, sleeps, all_location_data, daily_averages,
                   wsStatus, bulkVars, chartCall, request_count, resumable>>
    /\ UNCHANGED <<today, warehouse, upstream, pc, runLocals, prevCounts,
                   populated>>

\* fetch_and_load_weather has returned; fetch_and_load_charts starts
WeatherReturn ==
    /\ pc = "weather"
    /\ awaited(inFlight)
    /\ location = NumLocations /\ ~retrying
    /\ pc' = "charts"
    /\ chartQueue' = missing_charts
    /\ UNCHANGED callVars
    /\ UNCHANGED <<today, warehouse, upstream, missing_weather, missing_charts,
                   missing_features_old, ranges, wxRecords, items, new_ids,
                   new_track_ids, featQueue, features, updated, prevCounts,
                   populated>>

\* fetch_chart_for_date of the next date: gather starts its page requests
GatherPages ==
    /\ pc = "charts"
    /\ chartQueue # <<>>
    /\ awaited(inFlight)
    /\ \E n \in 1..MaxTopN :
          inFlight' = inFlight \cup page_requests(Head(chartQueue), n)
    /\ chartQueue' = Tail(chartQueue)
    /\ UNCHANGED <<bulkVars, weatherCall, chartCall, request_count, resumable>>
    /\ UNCHANGED <<today, warehouse, upstream, pc, missing_weather,
                   missing_charts, missing_features_old, ranges, wxRecords,
                   items, new_ids, new_track_ids, featQueue, features, updated,
                   prevCounts, populated>>

\* the response to a page request, or to a song request
ReceiveItem ==
    /\ \E r \in inFlight :
          /\ r[1] \in {"chart", "song"}
          /\ inFlight' = inFlight \ {r}
    /\ UNCHANGED <<bulkVars, weatherCall, chartCall, request_count, resumable>>
    /\ UNCHANGED <<today, warehouse, upstream, pc, runLocals, prevCounts,
                   populated>>

\* fetch_and_load_charts has returned; fetch_and_load_features starts
ChartsReturn ==
    /\ pc = "charts"
    /\ chartQueue = <<>>
    /\ awaited(inFlight)
    /\ pc' = "fetch_old"
    /\ featQueue' = missing_features_old
    /\ UNCHANGED callVars
    /\ UNCHANGED <<today, warehouse, upstream, missing_weather, missing_charts,
                   missing_features_old, ranges, wxRecords, chartQueue, items,
                   new_ids, new_track_ids, features, updated, prevCounts,
                   populated>>

\* fetch_audio_features: the request for the next uuid
SendSong ==
    /\ pc = "fetch_old"
    /\ featQueue # <<>>
    /\ awaited(inFlight)
    /\ inFlight' = inFlight \cup {<<"song", Head(featQueue), 0>>}
    /\ featQueue' = Tail(featQueue)
    /\ UNCHANGED <<bulkVars, weatherCall, chartCall, request_count, resumable>>
    /\ UNCHANGED <<today, warehouse, upstream, pc, missing_weather,
                   missing_charts, missing_features_old, ranges, wxRecords,
                   chartQueue, items, new_ids, new_track_ids, features, updated,
                   prevCounts, populated>>

\* main returns
RequestsReturn ==
    /\ pc = "fetch_old"
    /\ featQueue = <<>>
    /\ awaited(inFlight)
    /\ pc' = "idle"
    /\ ResetLocals
    /\ UNCHANGED callVars
    /\ UNCHANGED <<today, warehouse, upstream, prevCounts, populated>>

NextRequests ==
    \/ StartRequests
    \/ SendLocation
    \/ ReceiveLocation
    \/ WeatherReturn
    \/ GatherPages
    \/ ReceiveItem
    \/ ChartsReturn
    \/ SendSong
    \/ RequestsReturn

SpecRequests == Init /\ [][NextRequests]_vars

----------------------------------------------------------------------------
(* Repeated runs on a warehouse whose tracks are placeholders: the weather *)
(* is complete, the chart API has no new week, the feature API answers     *)
(* every request                                                           *)

SongIds == {"a", "b", "c"}

\* the placeholder rows of up to three songs, in any table order
PlaceholderTables ==
    {ids \in UNION {[1..n -> SongIds] : n \in 1..3} :
        \A i, j \in DOMAIN ids : ids[i] = ids[j] => i = j}

InitFeatureRuns ==
    /\ today = END_DATE
    /\ dimTime = <<2, 3, 4>>
    /\ dimWeather = [i \in 1..3 |->
                        [date_id |-> i, temperature_avg |-> TemperatureOf(i + 1)]]
    /\ \E ids \in PlaceholderTables :
          /\ dimTrack = [i \in DOMAIN ids |->
                            [track_id |-> ids[i], danceability |-> NULL,
                             energy |-> NULL]]
          /\ facts = [i \in DOMAIN ids |->
                         [track_id |-> ids[i], date_id |-> 1, weather_id |-> 1,
                          country |-> "de"]]
    /\ wxDown = FALSE
    /\ chartUp = {}
    /\ pc = "idle"
    /\ IdleLocals
    /\ prevCounts = NoCounts
    /\ populated = 2..4
    /\ IdleCalls

\* main, run after run; with nothing to load for weather and charts the
\* loaders are not called
NextFeatureRuns ==
    \/ ExtendDimTime
    \/ DetectGaps
    \/ FetchWeather
    \/ FetchChart
    \/ StartFeatures
    \/ FetchAudio
    \/ UpdateTrackFeatures
    \/ FinishRun

\* every run that is started goes on to its end, and a next run is started
SpecFeatureRuns ==
    InitFeatureRuns /\ [][NextFeatureRuns]_vars /\ WF_vars(NextFeatureRuns)

----------------------------------------------------------------------------
(* The weather stage with an archive that starts or stops failing while    *)
(* the stage is under way: between the fetch of one range and the next     *)

\* the archive starts or stops failing every request, between two ranges
OutageBetweenRanges ==
    /\ pc = "weather"
    /\ wxDown' = ~wxDown
    /\ UNCHANGED callVars
    /\ UNCHANGED <<today, warehouse, chartUp, pc, runLocals, prevCounts,
                   populated>>

\* the runs of main on a warehouse without a new chart week and without a
\* track to fetch features for
NextWeatherLoad ==
    \/ AdvanceDay
    \/ WeatherOutage
    \/ OutageBetweenRanges
    \/ PopulateDimTime
    \/ ScriptExit
    \/ ExtendDimTime
    \/ DetectGaps
    \/ FetchWeather
    \/ LoadWeatherBatch
    \/ FetchChart
    \/ StartFeatures
    \/ FinishRun
    \/ AbortRun

SpecWeatherLoad == Init /\ [][NextWeatherLoad]_vars

----------------------------------------------------------------------------
(* The batch loops of the two fetch scripts, ResumableFetcher.fetch_batch  *)
(* and ChartsFetcher.fetch_batch, called with a service that has counted   *)
(* some requests already                                                   *)

ChartsBatchSize == 1    \* CHARTS_BATCH_SIZE, scaled
WeekPages == 2          \* pages of fetch_chart_for_date(top_n=200)

\* "Approaching request limit (n/1000)": 950 + FEATURES_BATCH_SIZE
RequestQuota == RequestLimit + FeaturesBatchSize

\* get_chart_dates_from_api: the chart dates in the configured range
AvailableWeeks == <<2, 9, 16>>

\* get_remaining_dates
get_remaining_dates(all_dates, fetched_dates) ==
    SelectSeq(all_dates, LAMBDA d : d \notin fetched_dates)

\* save_progress: nothing for an empty frame; else the rows of the file and
\* the new rows, sorted by chart_date
save_progress(df_new, df_existing) ==
    IF df_new = <<>> THEN df_existing
    ELSE SortedSeq(Range(df_existing) \cup Range(df_new))

\* fetch_batch(service, uuids) of the resumable fetcher is called
StartFeatureBatches ==
    /\ fetchPc = "idle"
    /\ \E count \in 0..(RequestLimit - 1) : request_count' = count
    /\ \E n \in 1..Len(ChartUuids) : to_fetch' = Take(ChartUuids, n)
    /\ max_requests' = NoBudget
    /\ requested' = <<>>
    /\ fetchPc' = "fetching"
    /\ UNCHANGED <<charts_file, progress_file, batch, df_batch>>
    /\ UNCHANGED <<bulkVars, weatherCall, chartCall, inFlight>>
    /\ UNCHANGED <<today, warehouse, upstream, pc, runLocals, prevCounts,
                   populated>>

\* main_fetch_charts up to the call of fetch_batch: the service has counted
\* the requests of fetch_available_chart_dates; with no week remaining it
\* returns
StartChartBatches ==
    /\ fetchPc = "idle"
    /\ LET remaining == get_remaining_dates(AvailableWeeks, Range(charts_file))
       IN /\ remaining # <<>>
          /\ to_fetch' = remaining
    /\ \E count \in 0..(RequestLimit - 1) : request_count' = count
    /\ fetchPc' = "weeks"
    /\ UNCHANGED <<charts_file, progress_file, max_requests, batch, df_batch,
                   requested>>
    /\ UNCHANGED <<bulkVars, weatherCall, chartCall, inFlight>>
    /\ UNCHANGED <<today, warehouse, upstream, pc, runLocals, prevCounts,
                   populated>>

\* ChartsFetcher.fetch_batch: the next batch of weeks, or the end of the
\* loop
NextChartBatch ==
    /\ fetchPc = "weeks"
    /\ IF to_fetch = <<>>
       THEN /\ fetchPc' = "idle"
            /\ UNCHANGED <<to_fetch, batch>>
       ELSE /\ batch' = Take(to_fetch, ChartsBatchSize)
            /\ to_fetch' = Drop(to_fetch, ChartsBatchSize)
            /\ fetchPc' = "week"
    /\ UNCHANGED <<charts_file, progress_file, max_requests, df_batch,
                   requested, request_count>>
    /\ UNCHANGED <<bulkVars, weatherCall, chartCall, inFlight>>
    /\ UNCHANGED <<today, warehouse, upstream, pc, runLocals, prevCounts,
                   populated>>

\* fetch_week: fetch_chart_for_date sends its pages; a page whose request
\* gets a response is counted; the week is kept when items came back
FetchWeek ==
    /\ fetchPc = "week"
    /\ batch # <<>>
    /\ \E counted \in 0..WeekPages, got \in BOOLEAN :
          /\ got => counted > 0
          /\ request_count' = request_count + counted
          /\ df_batch' = IF got THEN Append(df_batch, Head(batch))
                         ELSE df_batch
    /\ batch' = Tail(batch)
    /\ UNCHANGED <<charts_file, progress_file, max_requests, to_fetch,
                   requested, fetchPc>>
    /\ UNCHANGED <<bulkVars, weatherCall, chartCall, inFlight>>
    /\ UNCHANGED <<today, warehouse, upstream, pc, runLocals, prevCounts,
                   populated>>

\* ChartsFetcher.fetch_batch after the weeks of a batch: save_progress when
\* a week was kept, and the break at the request limit
SaveProgress ==
    /\ fetchPc = "week"
    /\ batch = <<>>
    /\ charts_file' = save_progress(df_batch, charts_file)
    /\ df_batch' = <<>>
    /\ IF at_request_limit(request_count)
       THEN fetchPc' = "idle" /\ to_fetch' = <<>>
       ELSE fetchPc' = "weeks" /\ UNCHANGED to_fetch
    /\ UNCHANGED <<progress_file, max_requests, batch, requested,
                   request_count>>
    /\ UNCHANGED <<bulkVars, weatherCall, chartCall, inFlight>>
    /\ UNCHANGED <<today, warehouse, upstream, pc, runLocals, prevCounts,
                   populated>>

NextBatches ==
    \/ StartFeatureBatches
    \/ NextFeatureBatch
    \/ RequestSong
    \/ SaveBatch
    \/ StartChartBatches
    \/ NextChartBatch
    \/ FetchWeek
    \/ SaveProgress
    \/ InterruptFetch

SpecBatches == Init /\ [][NextBatches]_vars

----------------------------------------------------------------------------
(* Properties *)

HasWeather(date_id) == \E w \in Range(dimWeather) : w.date_id = date_id

\* C1: a run that completes right after a completed run, with the same
\* day and the same upstream data, ends with the row counts of WeatherDay,
\* Track and ChartFact that the first run ended with.
C1_IdempotentReRun ==
    (pc = "done" /\ prevCounts # NoCounts) => Counts = prevCounts

\* the second run had chart weeks and tracks to retry, after a first run
\* that loaded weather and charts
C1_Witness ==
    /\ pc = "done" /\ prevCounts # NoCounts
    /\ missing_charts # <<>> /\ missing_features_old # <<>>
    /\ Len(facts) > 1 /\ Len(dimWeather) > 3

\* C2: when link_weather_to_facts has run, every fact whose date_id has a
\* WeatherDay has a weather_id, and every fact whose date_id has none has a
\* null weather_id.
C2_LinkingPostcondition ==
    pc = "linked" =>
        \A i \in DOMAIN facts :
            /\ HasWeather(facts[i].date_id) => facts[i].weather_id # NULL
            /\ ~HasWeather(facts[i].date_id) => facts[i].weather_id = NULL

\* the linker linked a fact and left another one, without weather, null
C2_Witness ==
    /\ pc = "linked" /\ updated > 0
    /\ \E i \in DOMAIN facts :
          facts[i].weather_id = NULL /\ ~HasWeather(facts[i].date_id)

\* C3 as stated: the missing-weather list holds exactly the TimeDay dates
\* without WeatherDay, each once.
C3_AllUncoveredListed ==
    LET m == get_missing_weather_dates
    IN /\ Range(m) = TimeDates \ WeatherDates
       /\ Len(m) = Cardinality(Range(m))

\* C3 amended: the list holds no date that has a WeatherDay, holds each of
\* its dates once, and holds every TimeDay date without WeatherDay that is
\* later than the latest date with a WeatherDay; a date without WeatherDay
\* earlier than that date is not listed.
C3_UncoveredAfterLatestListed ==
    LET m == get_missing_weather_dates
    IN /\ Range(m) \subseteq TimeDates \ WeatherDates
       /\ Len(m) = Cardinality(Range(m))
       /\ \A d \in TimeDates \ WeatherDates :
             d \in Range(m) <=>
                (WeatherDates # {} /\ \A w \in WeatherDates : w < d)

\* gap detection has run on a warehouse with an uncovered date before the
\* latest covered one, and listed later dates only
C3_Witness ==
    /\ pc = "weather" /\ missing_weather = get_missing_weather_dates
    /\ missing_weather # <<>>
    /\ \E d \in TimeDates \ WeatherDates : \E w \in WeatherDates : d < w

\* C4: when an incremental run completes, every fact whose date has a
\* WeatherDay has a weather_id, also a fact loaded before the weather of
\* its date arrived.
C4_LinkedAtEndOfRun ==
    pc = "done" =>
        \A i \in DOMAIN facts :
            HasWeather(facts[i].date_id) => facts[i].weather_id # NULL

Sundays == {d \in TimeDates : weekday(d) = 6}

IsAscending(s) == \A i, j \in DOMAIN s : i < j => s[i] < s[j]

\* C5 as stated: the missing-chart-weeks list is the ascending list of the
\* Sundays of TimeDay that have no ChartFact.
C5_AllSundaysWithoutFactListed ==
    LET m == get_missing_chart_dates
    IN IsAscending(m) /\ Range(m) = Sundays \ FactDates

\* C5 amended: the list is the ascending list of the Sundays of TimeDay
\* later than the latest date that has a ChartFact; so a Sunday without
\* ChartFact is listed, and retried, exactly when no later date has a
\* ChartFact.
C5_SundaysAfterLatestFactListed ==
    LET m == get_missing_chart_dates
    IN /\ IsAscending(m)
       /\ Range(m) \subseteq Sundays \ FactDates
       /\ \A d \in Sundays \ FactDates :
             d \in Range(m) <=> (FactDates # {} /\ \A f \in FactDates : f < d)

\* a run listed its missing chart weeks while an earlier Sunday, skipped
\* when a later week was loaded, has no fact and is not listed
C5_Witness ==
    /\ pc = "charts" /\ missing_charts = get_missing_chart_dates
    /\ \E d \in Sundays \ FactDates :
          /\ \E f \in FactDates : d < f
          /\ d \notin Range(missing_charts)

\* C8: no two ChartFact rows have the same (track, date, market).
C8_NoDuplicateFacts ==
    \A i, j \in DOMAIN facts :
        (/\ facts[i].track_id = facts[j].track_id
         /\ facts[i].date_id = facts[j].date_id
         /\ facts[i].country = facts[j].country) => i = j

\* two incremental runs have loaded two chart weeks, with a track in both
C8_Witness ==
    /\ pc = "done"
    /\ \E i, j \in DOMAIN facts :
          /\ facts[i].track_id = facts[j].track_id
          /\ i > 1 /\ j > 1 /\ facts[i].date_id # facts[j].date_id
    /\ prevCounts # NoCounts

\* C9: each TimeDay has at most one WeatherDay row, and a step never changes
\* or removes an existing WeatherDay row.
C9_OneWeatherPerDay ==
    /\ [](\A i, j \in DOMAIN dimWeather :
             dimWeather[i].date_id = dimWeather[j].date_id => i = j)
    /\ [][\A i \in DOMAIN dimWeather :
             i \in DOMAIN dimWeather' /\ dimWeather'[i] = dimWeather[i]]_vars

\* an incremental weather load of two ranges has committed its batches
C9_Witness ==
    /\ pc = "wload" /\ wxRecords = <<>> /\ Len(ranges) = 1
    /\ Len(group_ranges(missing_weather)) > 1
    /\ Len(dimWeather) > 3 + BatchSizeWeather

Gapless(S) == \A d \in Days : (\E a, b \in S : a < d /\ d < b) => d \in S

\* C10: no two TimeDay rows have the same date; every day of a range that
\* populate_dim_time has run for has a TimeDay row; extending to today
\* stores every day from the latest stored date to today, so that a stored
\* range without gaps is still without gaps.
C10_TimeDimension ==
    /\ [](/\ \A i, j \in DOMAIN dimTime : dimTime[i] = dimTime[j] => i = j
          /\ populated \subseteq TimeDates)
    /\ [][(pc = "idle" /\ pc' = "detect" /\ dimTime # <<>>) =>
             /\ \A d \in Days :
                   (Max(TimeDates) < d /\ d <= today) => d \in TimeDates'
             /\ Gapless(TimeDates) => Gapless(TimeDates')]_vars

\* the default range was populated again after days before it were asked
\* for, and the dimension was extended to today
C10_Witness ==
    /\ pc = "detect" /\ 1 \in TimeDates /\ Gapless(TimeDates)
    /\ today > END_DATE + 1 /\ today \in TimeDates

\* C6: a fact with a weather_id references a WeatherDay row that exists and
\* whose date_id is the fact's date_id, whether the loader set it at
\* insertion or the linker later.
C6_SameDayWeather ==
    \A i \in DOMAIN facts :
        facts[i].weather_id # NULL =>
            /\ facts[i].weather_id \in DOMAIN dimWeather
            /\ dimWeather[facts[i].weather_id].date_id = facts[i].date_id

\* the linker has linked a fact, next to facts the loaders inserted with a
\* weather_id, on a day that has two WeatherDay rows
C6_Witness ==
    /\ pc = "linked" /\ updated > 0
    /\ Cardinality({i \in DOMAIN facts : facts[i].weather_id # NULL}) > updated
    /\ \E i \in DOMAIN facts :
          /\ facts[i].weather_id # NULL
          /\ facts[i].weather_id # first_weather(facts[i].date_id)

\* C7: every ChartFact references a Track row and a TimeDay row that
\* exist.
C7_FactsReferenceDimensions ==
    \A i \in DOMAIN facts :
        /\ facts[i].track_id \in TrackKeys
        /\ facts[i].date_id \in DOMAIN dimTime

\* what the feature API holds for a track: <<danceability, energy>>
AudioFields(uuid) ==
    IF AudioOf(uuid) = "full" THEN <<1, 1>>
    ELSE IF AudioOf(uuid) = "nodance" THEN <<NULL, 1>>
    ELSE <<NULL, NULL>>

\* C11 as stated: the feature fields of a track are all null or all set.
C11_AllOrNoFeatures ==
    \A t \in Range(dimTrack) : (t.danceability = NULL) <=> (t.energy = NULL)

\* C11 amended: the feature fields of a track are all null, or they are,
\* all together, the fields of the track's upstream audio object, of which
\* some may be null.
C11_FeaturesOfOneObject ==
    \A t \in Range(dimTrack) :
        \/ t.danceability = NULL /\ t.energy = NULL
        \/ <<t.danceability, t.energy>> = AudioFields(t.track_id)

\* a feature update has been committed: one track has every field, one a
\* field set and a field null, one no field
C11_Witness ==
    /\ pc = "done"
    /\ \E t \in Range(dimTrack) : t.danceability # NULL /\ t.energy # NULL
    /\ \E t \in Range(dimTrack) : t.danceability = NULL /\ t.energy # NULL
    /\ \E t \in Range(dimTrack) : t.danceability = NULL /\ t.energy = NULL

\* the ids given to fetch_audio_features in the feature stage under way
RequestedIds ==
    IF pc = "fetch_new" THEN new_track_ids ELSE missing_features_old

\* the result of fetch_audio_features has an entry for exactly the requested
\* ids that the API answers with an audio object with a value, in the order
\* of the request, and a track the API has nothing for has no feature field
FeaturesOfFoundOnly ==
    /\ ((pc \in {"fetch_new", "fetch_old"} /\ featQueue = <<>>) =>
           [i \in DOMAIN features |-> features[i].song_uuid] =
              SelectSeq(RequestedIds, LAMBDA u : AudioOf(u) # "none"))
    /\ \A t \in Range(dimTrack) :
          AudioOf(t.track_id) = "none" =>
             t.danceability = NULL /\ t.energy = NULL

C18_WeatherStageContained ==
    [][(pc \in {"weather", "wload"}) =>
          (pc' \in {"weather", "wload", "charts"})]_vars

\* C19: a failure while one chart week is loaded does not keep the run from
\* the chart weeks that are still missing.
C19_ChartWeekContained ==
    [][(pc \in {"ctracks", "cfacts"} /\ Len(chartQueue) > 1) =>
          (pc' \in {"ctracks", "cfacts", "charts"})]_vars

\* C20 as stated: the weather loader and the bulk fact loader commit batch
\* by batch: a crash keeps the weather rows committed so far, and keeps the
\* fact batches processed so far.
C20_EveryBatchDurable ==
    [][/\ (pc = "wload" /\ pc' = "idle") => (dimWeather' = dimWeather)
       /\ (pc = "bulk" /\ pc' = "idle" /\ bulkQueue # <<>>) =>
             (facts' = facts \o flushed)]_vars

\* the value location l reported for metric m on day d, if it reported one
Reported(l, d, m) ==
    {r[m] : r \in {x \in Range(all_location_data[l]) : x.date = d}}
        \ {NoValue}

\* the mean of metric m on day d over the locations that reported a value
MeanOfReported(d, m) ==
    LET reporters == {l \in DOMAIN all_location_data : Reported(l, d, m) # {}}
        share == [l \in DOMAIN all_location_data |->
                    IF l \in reporters
                    THEN CHOOSE v \in Reported(l, d, m) : TRUE
                    ELSE 0]
    IN IF reporters = {} THEN NoMean
       ELSE <<SeqSum(share), Cardinality(reporters)>>

Aggregated == fetcher = "service" /\ wsStatus \in {"done", "TypeError"}

\* C12: for each day the aggregated sunshine value is the sum of the
\* sunshine values of the locations whose record of that day has one,
\* divided by the number of those locations, and None when there is none.
C12_SunshineMeanOverReporters ==
    (fetcher = "service" /\ wsStatus = "done") =>
        \A i \in DOMAIN daily_averages :
            daily_averages[i].sunshine_hours =
                MeanOfReported(daily_averages[i].date, "sunshine_hours")

\* every location has a record of the day, one of them without a sunshine
\* value, and the mean is taken over the others
C12_Witness ==
    /\ fetcher = "service" /\ wsStatus = "done"
    /\ \E i \in DOMAIN daily_averages :
          /\ \A l \in DOMAIN all_location_data :
                \E r \in Range(all_location_data[l]) :
                    r.date = daily_averages[i].date
          /\ daily_averages[i].sunshine_hours[2] = NumLocations - 1
          /\ daily_averages[i].sunshine_hours[1] > 0

\* C13 as stated: whatever the locations reported, the aggregation completes
\* and every metric of every day is the mean over the locations that
\* reported a value for it.
C13_NullMetricsExcluded ==
    Aggregated =>
        /\ wsStatus = "done"
        /\ \A i \in DOMAIN daily_averages : \A m \in Metrics :
              daily_averages[i][m] = MeanOfReported(daily_averages[i].date, m)

\* C16: a call of fetch_location_weather (and of the earlier
\* fetch_weather_data) never raises, makes at most max_retries requests, and
\* has returned the empty list once max_retries requests went by without a
\* readable 200.
C16_NeverRaisesAtMostThreeAttempts ==
    /\ wsStatus # "raised"
    /\ Len(attempts) <= max_retries
    /\ (Len(attempts) = max_retries /\ "ok" \notin Range(attempts)) =>
          /\ Len(all_location_data) = location
          /\ all_location_data[location] = <<>>

\* three requests, the last one answered with an unreadable body, and the
\* call has returned the empty list
C16_Witness ==
    /\ fetcher = "service"
    /\ attempts = <<"r429", "timeout", "malformed">>
    /\ Len(all_location_data) = location
    /\ all_location_data[location] = <<>>

Succeeded == {l \in DOMAIN all_location_data : all_location_data[l] # <<>>}

\* C17: a location that failed has an empty series; fetch_all completes
\* unless a location that succeeded reported a day without temperature,
\* precipitation or wind; the result has one record for each day of at
\* least one series, in ascending order of the dates, and its means are
\* taken over the locations that succeeded and have the day.
C17_FailedLocationLeftOut ==
    Aggregated =>
        LET days == {r.date : r \in UNION {Range(all_location_data[l]) :
                                              l \in Succeeded}}
            incomplete ==
                \E l \in Succeeded : \E r \in Range(all_location_data[l]) :
                    NoValue \in {r.temperature_avg, r.precipitation_mm,
                                 r.wind_speed_kmh}
        IN /\ (wsStatus = "done") <=> ~incomplete
           /\ wsStatus = "done" =>
                 /\ {daily_averages[i].date : i \in DOMAIN daily_averages}
                       = days
                 /\ Len(daily_averages) = Cardinality(days)
                 /\ \A i, j \in DOMAIN daily_averages :
                       i < j =>
                          daily_averages[i].date < daily_averages[j].date
                 /\ \A i \in DOMAIN daily_averages :
                       \A m \in Metrics \ {"sunshine_hours"} :
                          /\ daily_averages[i][m] =
                                MeanOfReported(daily_averages[i].date, m)
                          /\ daily_averages[i][m][2] =
                                Cardinality({l \in Succeeded :
                                    \E r \in Range(all_location_data[l]) :
                                        r.date = daily_averages[i].date})

\* the first location failed, fetch_all completed, and the last day comes
\* from fewer locations than the first
C17_Witness ==
    /\ fetcher = "service" /\ wsStatus = "done"
    /\ all_location_data[1] = <<>>
    /\ Len(daily_averages) = 2
    /\ daily_averages[1].temperature_avg[2] = NumLocations - 1
    /\ daily_averages[2].temperature_avg[2] = 1

\* ceil(n / PageLimit): the least number of pages that hold n items
CeilPages(n) == CHOOSE k \in 0..n : k * PageLimit >= n /\ (k - 1) * PageLimit < n

\* C14: a call with top_n = N has ceil(N / limit) page requests, all of them
\* in flight or answered at any moment of the call; whatever the order of
\* the responses, it returns the items of the pages in page order, cut to
\* the first N; when every page came back full these are exactly the
\* positions 1..N.
C14_PagesInOrderCutToN ==
    chartPc # "idle" =>
        /\ Len(results) = CeilPages(top_n)
        /\ pagesOpen \cup Range(completed) = 0..(CeilPages(top_n) - 1)
        /\ Len(completed) + Cardinality(pagesOpen) = CeilPages(top_n)
        /\ chartPc = "returned" =>
              /\ all_items = Take(Flatten(results), top_n)
              /\ IsAscending(all_items)
              /\ (\A i \in DOMAIN results : Len(results[i]) = PageLimit) =>
                    all_items = [i \in 1..top_n |-> i]

\* two full pages answered last page first, one item more than asked for,
\* and the call has returned the first top_n positions
C14_Witness ==
    /\ chartPc = "returned"
    /\ Len(results) = 2
    /\ completed = <<1, 0>>
    /\ \A i \in DOMAIN results : Len(results[i]) = PageLimit
    /\ top_n = 2 * PageLimit - 1
    /\ Len(all_items) = top_n

\* the records of the stream of the running load_weather consumed so far,
\* and those of them whose date is in dim_time
StreamConsumed ==
    LET stream == fetch_all(Head(ranges)[1], Head(ranges)[2])
    IN Take(stream, Len(stream) - Len(wxRecords))

StreamKept == SelectSeq(StreamConsumed, LAMBDA d : d \in TimeDates)

\* C21: while load_weather runs, the rows it has inserted are the rows of
\* exactly the consumed records whose date is in dim_time, in stream order,
\* so a record with an unknown date is passed over and the records around
\* it are inserted; load_charts for a date that is not in dim_time changes
\* no table, hands no track id to its caller and returns.
C21_UnknownDateSkipped ==
    /\ [](pc = "wload" =>
            /\ Len(dimWeather) >= Len(StreamKept)
            /\ \A i \in DOMAIN StreamKept :
                  dimWeather[Len(dimWeather) - Len(StreamKept) + i] =
                     [date_id |-> CHOOSE k \in DOMAIN dimTime :
                                     dimTime[k] = StreamKept[i],
                      temperature_avg |-> TemperatureOf(StreamKept[i])])
    /\ [][(pc = "ctracks" /\ Head(chartQueue) \notin TimeDates) =>
             (/\ warehouse' = warehouse
              /\ new_track_ids' = new_track_ids
              /\ pc' \in {"charts", "idle"})]_vars

\* a stream whose first record has a date that is not in dim_time has been
\* consumed, and the records after it are inserted
C21_Witness ==
    /\ pc = "wload" /\ wxRecords = <<>>
    /\ Head(StreamConsumed) \notin TimeDates
    /\ Len(StreamKept) = 2
    /\ Len(dimWeather) = 5

\* the track ids of the items being loaded that have no Track row
ItemsWithoutTrack == (Range(items) \ {NoUuid}) \ TrackKeys

\* C22: the first commit of load_charts appends one placeholder row, with
\* null features, for each track id of the items that has no Track row, and
\* leaves the rows stored before as they are; the ids it collects are those
\* ids, each once, and its caller appends exactly them to its list of new
\* track ids.
C22_PlaceholdersForNewTracks ==
    [][/\ (pc = "ctracks" /\ pc' = "cfacts") =>
             (/\ SubSeq(dimTrack', 1, Len(dimTrack)) = dimTrack
              /\ Len(dimTrack') = Len(dimTrack) + Cardinality(ItemsWithoutTrack)
              /\ {dimTrack'[i].track_id :
                     i \in (Len(dimTrack) + 1)..Len(dimTrack')}
                    = ItemsWithoutTrack
              /\ \A i \in (Len(dimTrack) + 1)..Len(dimTrack') :
                    dimTrack'[i].danceability = NULL
                    /\ dimTrack'[i].energy = NULL
              /\ Range(new_ids') = ItemsWithoutTrack
              /\ Len(new_ids') = Cardinality(ItemsWithoutTrack))
       /\ (pc = "cfacts" /\ pc' = "charts") =>
             (/\ dimTrack' = dimTrack
              /\ new_track_ids' = new_track_ids \o new_ids)]_vars

\* the tracks of a chart date are committed: one item's track was stored
\* with features before the call, another one has just got its placeholder
C22_Witness ==
    /\ pc = "cfacts"
    /\ new_ids # <<>>
    /\ \E t \in Range(dimTrack) :
          /\ t.track_id \in Range(items) \ Range(new_ids)
          /\ t.danceability # NULL

\* C23: update_track_features stores the feature values of a row of its
\* input on the Track row with that track id, and changes nothing else: the
\* table keeps its length and its keys, a row without input stays as it
\* is, an input row without a Track row adds nothing, and the same input
\* applied to the result changes nothing again.
C23_UpdateInPlaceIdempotent ==
    [][(/\ pc \in {"fetch_new", "fetch_old"} /\ featQueue = <<>>
        /\ pc' \in {"features_old", "done"}) =>
          (/\ Len(dimTrack') = Len(dimTrack)
           /\ \A i \in DOMAIN dimTrack :
                 /\ dimTrack'[i].track_id = dimTrack[i].track_id
                 /\ (\A r \in Range(features) :
                        r.song_uuid # dimTrack[i].track_id) =>
                       dimTrack'[i] = dimTrack[i]
                 /\ \A r \in Range(features) :
                       r.song_uuid = dimTrack[i].track_id =>
                          /\ dimTrack'[i].danceability = r.danceability
                          /\ dimTrack'[i].energy = r.energy
           /\ update_track_features(dimTrack', features) = dimTrack')]_vars

\* the input with a row for "c" and a row for "a" has been applied to a
\* table without a row for "c": the row of "a" has the new values and no
\* row was added
C23_Witness ==
    /\ pc = "done"
    /\ "c" \notin TrackKeys
    /\ \E t \in Range(dimTrack) :
          t.track_id = "a" /\ t.danceability = 2 /\ t.energy = 2

\* C24 as stated: the counter of a service never decreases, and every page
\* request that ends, however it ends, has raised it by exactly one, so
\* that the P pages of a call raise it by P.
C24_EveryRequestCounted ==
    [][/\ (pc = "charts" /\ pc' = "charts") =>
             (request_count' >= request_count)
       /\ (Len(completed') = Len(completed) + 1) =>
             (request_count' = request_count + 1)]_vars

\* C25 as stated: with a budget configured, a run of main_fetch sends at
\* most that many song requests.
C25_AtMostBudgetRequests ==
    max_requests # NoBudget => Len(requested) <= max_requests

RowUuids(file) == {r.song_uuid : r \in Range(file)}

\* C28 as stated: a song that has a row in the progress file is not
\* requested, the file has at most one row for a song, and a row of the
\* file stays in the file as it was written.
C28_ProgressFileKept ==
    /\ [](Cardinality(RowUuids(progress_file)) = Len(progress_file))
    /\ [][/\ (Len(requested') = Len(requested) + 1) =>
                (requested'[Len(requested')] \notin RowUuids(progress_file))
          /\ \A i \in DOMAIN progress_file :
                i \in DOMAIN progress_file'
                /\ progress_file'[i] = progress_file[i]]_vars

\* C26: when every page of a date came back empty (another status, no
\* items, a failed request), fetch_chart_for_date returns the empty list;
\* its caller then changes no table, drops the date from its list and is
\* at the next date, for which the next call can start.
C26_NoDataDateSkipped ==
    /\ []((chartPc = "returned" /\ \A i \in DOMAIN results : results[i] = <<>>)
             => all_items = <<>>)
    /\ [][(chartPc = "returned" /\ all_items = <<>> /\ chartPc' # "returned")
             => (/\ warehouse' = warehouse
                 /\ new_track_ids' = new_track_ids
                 /\ chartQueue' = Tail(chartQueue)
                 /\ pc' = "charts" /\ chartPc' = "idle")]_vars

\* both pages of the call for the first of two dates have come back empty,
\* one of them after a failed request, and the caller is at the second date
\* with the tables as they were
C26_Witness ==
    /\ pc = "charts" /\ chartPc = "idle"
    /\ chartQueue = <<4>>
    /\ Len(completed) = 2 /\ request_count = 1
    /\ results = <<<<>>, <<>>>>
    /\ all_items = <<>>
    /\ Len(facts) = 1 /\ Len(dimTrack) = 1

\* the row of a track and its position in the table
TrackPos(id) == CHOOSE i \in DOMAIN dimTrack : dimTrack[i].track_id = id

C29_DatesAfterLatestWeather ==
    LET m == get_missing_weather_dates
    IN /\ (dimWeather = <<>>) => (m = <<>>)
       /\ (dimWeather # <<>>) =>
             \E latest \in WeatherDates :
                /\ \A w \in WeatherDates : w <= latest
                /\ Range(m) = {d \in TimeDates : d > latest}
       /\ IsAscending(m)
       /\ (pc = "weather") => (missing_weather = m)

\* gap detection has run on a warehouse whose latest weather date has a
\* day without weather before it and two days of dim_time after it
C29_Witness ==
    /\ pc = "weather"
    /\ Len(missing_weather) >= 2
    /\ \E d \in TimeDates \ WeatherDates : \E w \in WeatherDates : d < w
    /\ \A d \in Range(missing_weather) : \A w \in WeatherDates : w < d

WeatherStage == {"weather", "wload"}

ChartStage == {"charts", "ctracks", "cfacts"}

FeatureStage == {"features_new", "fetch_new", "features_old", "fetch_old"}

\* C30: a run takes its stages in the order extend-time, detect-gaps,
\* weather, charts, features.  Gap detection is entered by the step that
\* extends dim_time; nothing is fetched before gap detection has computed
\* the three lists; in the chart stage no weather range and no weather
\* record is left to load; in the feature stage no chart date is left to
\* request or load; no stage is entered from a later one.
C30_StagesInOrder ==
    /\ [](/\ (pc \in {"idle", "detect"}) =>
                /\ ranges = <<>> /\ wxRecords = <<>>
                /\ chartQueue = <<>> /\ items = <<>>
                /\ featQueue = <<>> /\ features = <<>>
          /\ (pc \in WeatherStage) =>
                /\ chartQueue = <<>> /\ items = <<>>
                /\ featQueue = <<>> /\ features = <<>>
          /\ (pc \in ChartStage) =>
                /\ ranges = <<>> /\ wxRecords = <<>>
                /\ featQueue = <<>> /\ features = <<>>
          /\ (pc \in FeatureStage) =>
                /\ ranges = <<>> /\ wxRecords = <<>>
                /\ chartQueue = <<>> /\ items = <<>>)
    /\ [][/\ (pc' = "detect" /\ pc # "detect") =>
                (pc = "idle" /\ dimTime' = dimTime \o extend_rows)
          /\ (pc = "detect" /\ pc' \notin {"detect", "idle"}) =>
                (/\ pc' \in {"weather", "done"}
                 /\ missing_weather' = get_missing_weather_dates
                 /\ missing_charts' = get_missing_chart_dates
                 /\ missing_features_old' = get_missing_features)
          /\ (pc' \in WeatherStage) => (pc \in WeatherStage \cup {"detect"})
          /\ (pc' \in ChartStage) => (pc \in ChartStage \cup WeatherStage)
          /\ (pc' \in FeatureStage) => (pc \in FeatureStage \cup ChartStage)
          /\ (pc' = "done" /\ pc # "done") =>
                (pc \in FeatureStage \cup {"detect"})]_vars

\* a run that found weather days and chart weeks missing, loaded one of
\* each, and now requests the features of the tracks the charts brought
C30_Witness ==
    /\ pc = "fetch_new"
    /\ featQueue # <<>>
    /\ \E d \in Range(missing_weather) : d \in WeatherDates
    /\ \E d \in Range(missing_charts) :
          \E i \in DOMAIN facts : facts[i].date_id = date_lookup(d)
    /\ new_track_ids # <<>>

\* C31: in the retry loop of one location, a 429 on the zero-based attempt
\* k is followed by a sleep of 2 * 2^k seconds (2, 4, 8); a timeout or a
\* transport error is followed by a sleep of 2 seconds when another
\* attempt remains and by none after the last attempt; the location is
\* requested at most 3 times, and after a 429, a timeout or a transport
\* error with an attempt left the same location is still under way.
C31_BackoffAndCap ==
    /\ Len(attempts) <= 3
    /\ Len(sleeps) = Len(attempts)
    /\ \A i \in DOMAIN attempts :
          /\ (attempts[i] = "r429") =>
                sleeps[i] = (IF i = 1 THEN 2 ELSE IF i = 2 THEN 4 ELSE 8)
          /\ (attempts[i] \in {"timeout", "transport"}) =>
                sleeps[i] = (IF i < 3 THEN 2 ELSE 0)
    /\ (/\ attempts # <<>>
        /\ Len(attempts) < 3
        /\ attempts[Len(attempts)] \in {"r429", "timeout", "transport"}) =>
          Len(all_location_data) < location

\* a location answered 429, then timed out, then answered 429 again
C31_Witness ==
    /\ attempts = <<"r429", "timeout", "r429">>
    /\ sleeps = <<2, 2, 8>>
    /\ location = 2

\* C32: at every moment, two different requests in flight are two pages of
\* one chart date: no two location requests, no requests for two chart
\* dates, no two song requests and no requests of two kinds are in flight
\* together.
C32_OnlyPagesOfOneDateTogether ==
    \A r1 \in inFlight : \A r2 \in inFlight \ {r1} :
        /\ r1[1] = "chart" /\ r2[1] = "chart"
        /\ r1[2] = r2[2]

\* three pages of the second chart date are in flight, after the locations
\* and the first date have been answered
C32_Witness ==
    /\ pc = "charts"
    /\ location = NumLocations
    /\ missing_charts = <<3, 4>>
    /\ inFlight = {<<"chart", 4, 0>>, <<"chart", 4, 1>>, <<"chart", 4, 2>>}

\* C33: link_weather_to_facts returns normally on every warehouse state,
\* the state without any unlinked fact included: a call of the linker ends
\* with the linker returned and its session closed, never with an exception.
C33_LinkerReturnsNormally ==
    [][(pc = "idle" /\ pc' \in {"linked", "link_raised"}) =>
          (pc' = "linked")]_vars

\* C34: under repeated runs against a feature API that answers, every track
\* the API has audio values for ends up with the values it can deliver, and
\* keeps them, whatever other tracks the API never has values for.
C34_DeliverableEventuallyPopulated ==
    <>[](\A t \in Range(dimTrack) :
            /\ (AudioOf(t.track_id) = "full") =>
                  (t.danceability # NULL /\ t.energy # NULL)
            /\ (AudioOf(t.track_id) = "nodance") => (t.energy # NULL))

\* every date of dim_time without a weather row is later than every date
\* that has one
NoHole == \A d \in TimeDates \ WeatherDates : \A w \in WeatherDates : w < d

\* C35: a weather load that starts on a coverage without a hole leaves a
\* coverage without a hole, after each of its commits and when it is
\* interrupted.
C35_WeatherLoadLeavesNoHole ==
    [][(NoHole /\ pc \in {"weather", "wload"}) => NoHole']_vars

\* the failure of load_charts between its two commits: the placeholder
\* tracks of the date are committed, its facts are not.  A chart date
\* brings at most top_n = 200 tracks, as many as get_missing_features
\* selects.
FailsBetweenCommits ==
    /\ pc = "cfacts" /\ pc' = "idle"
    /\ new_ids # <<>> /\ Len(new_ids) <= FeatureCap

\* C36: when load_charts fails between its two commits, the warehouse keeps
\* the placeholder tracks and has no fact for the date; gap detection then
\* lists the date again and selects every one of the placeholder tracks for
\* the feature fetch; and no load, the repeated one included, gives a track
\* a second row.
C36_FailedWeekRecovered ==
    /\ [](\A i, j \in DOMAIN dimTrack :
             dimTrack[i].track_id = dimTrack[j].track_id => i = j)
    /\ [][FailsBetweenCommits =>
             /\ dimTrack' = dimTrack
             /\ Range(new_ids) \subseteq TrackKeys'
             /\ \A i \in DOMAIN facts' :
                   facts'[i].date_id # date_lookup(Head(chartQueue))
             /\ Head(chartQueue) \in Range(get_missing_chart_dates')
             /\ Range(new_ids) \subseteq Range(get_missing_features')]_vars

\* C37: in both batch loops, entered with a counter below the limit (950),
\* a batch is started only while the counter is below the limit, and the
\* counter never goes beyond the quota (1000).
C37_CounterWithinQuota ==
    /\ [](request_count <= RequestQuota)
    /\ [][(/\ fetchPc \in {"fetching", "weeks"}
           /\ fetchPc' \in {"requesting", "week"}) =>
             (request_count < RequestLimit)]_vars

\* the songs of a batch that was started one request below the limit have
\* all been counted, and the loop is about to end with songs left
C37_Witness ==
    /\ fetchPc = "requesting" /\ batch = <<>>
    /\ request_count = RequestLimit - 1 + FeaturesBatchSize
    /\ to_fetch # <<>>

----------------------------------------------------------------------------
(* fetch_and_load_weather called with any ascending list of dates          *)

MaxGroupSpan == 7       \* the missing dates lie in a window of this many days

GroupDates == (END_DATE + 1)..(END_DATE + MaxGroupSpan)

\* the time dimension extended to the end of the window, weather as loaded
InitGroup ==
    /\ today = END_DATE + MaxGroupSpan
    /\ dimTime = [i \in 1..(END_DATE + MaxGroupSpan - START_DATE + 1) |->
                     START_DATE + i - 1]
    /\ dimWeather = [i \in 1..(END_DATE - START_DATE + 1) |->
                        [date_id |-> i,
                         temperature_avg |-> TemperatureOf(START_DATE + i - 1)]]
    /\ dimTrack = <<[track_id |-> "a", danceability |-> 1, energy |-> 1]>>
    /\ facts = <<[track_id |-> "a", date_id |-> 1, weather_id |-> 1,
                  country |-> "de"]>>
    /\ wxDown = FALSE
    /\ chartUp = {}
    /\ pc = "idle"
    /\ IdleLocals
    /\ prevCounts = NoCounts
    /\ populated = Range(dimTime)
    /\ IdleCalls

\* fetch_and_load_weather(missing_dates), up to the ranges: the argument is
\* any ascending list of dates of the window
GroupMissingDates ==
    /\ pc = "idle"
    /\ \E S \in SUBSET GroupDates :
          /\ missing_weather' = SortedSeq(S)
          /\ ranges' = group_ranges(SortedSeq(S))
    /\ pc' = "weather"
    /\ UNCHANGED callVars
    /\ UNCHANGED <<today, warehouse, upstream, missing_charts,
                   missing_features_old, wxRecords, chartQueue, items,
                   new_ids, new_track_ids, featQueue, features, updated,
                   prevCounts, populated>>

NextGroup ==
    \/ GroupMissingDates
    \/ FetchWeather
    \/ LoadWeatherBatch

SpecGroup == InitGroup /\ [][NextGroup]_vars

\* the days that the ranges r ask the weather service for
requested_days(r) == UNION {r[i][1]..r[i][2] : i \in DOMAIN r}

\* C38: the ranges built from an ascending list of missing dates are in
\* ascending order, pairwise disjoint and never adjacent (each range ends at
\* least two days before the next one starts), and the days of all ranges
\* are exactly the missing dates: every missing date is requested, once, and
\* no other date is.
C38_MaximalRunsOfConsecutiveDays ==
    [][(pc = "idle" /\ pc' = "weather") =>
         /\ \A i \in DOMAIN ranges' : ranges'[i][1] <= ranges'[i][2]
         /\ \A i \in DOMAIN ranges' :
               i < Len(ranges') => ranges'[i][2] + 1 < ranges'[i + 1][1]
         /\ requested_days(ranges') = Range(missing_weather')]_vars

\* a list with a run of two days, a single day and another run of two days
\* has been grouped into three ranges
C38_Witness ==
    /\ pc = "weather"
    /\ missing_weather = <<END_DATE + 1, END_DATE + 2, END_DATE + 4,
                           END_DATE + 6, END_DATE + 7>>
    /\ ranges = <<<<END_DATE + 1, END_DATE + 2>>, <<END_DATE + 4, END_DATE + 4>>,
                  <<END_DATE + 6, END_DATE + 7>>>>

====
